---- MODULE Spec2Model ----
(***************************************************************************)
(* Knowledge store of the research agent: the vector collection            *)
(* (storage/collection.py: an SQLite metadata table joined to an hnswlib   *)
(* index by row id), the memory facade (tools/memory.py) and the           *)
(* background ingestion queue (tools/finding_queue.py: an asyncio.Queue    *)
(* with one consumer coroutine that stores each finding in a thread).      *)
(*                                                                         *)
(* SpecColl  : a caller drives one Collection sequentially.                *)
(* Spec      : one coroutine drives a FindingQueue the way agent/loop.py   *)
(*             does (start() only while no consumer is alive); the         *)
(*             consumer stores through MemoryTool into the Collection.     *)
(* SpecApi   : Spec plus start() called while a consumer is alive.         *)
(* FairSpec  : Spec with the event loop's and the thread pool's progress.  *)
(* SpecThr   : two threads inside calls of one Collection, step by step.   *)
(* SpecLoop  : the agent loop executes one store_finding tool call, with   *)
(*             the quote validator (tools/quote_validator.py).             *)
(* SpecMem   : a caller drives one MemoryTool sequentially, over restarts. *)
(* SpecRead  : a caller adds and removes single records and pages through *)
(*             the Collection with get_all.                                *)
(* SpecTools : Spec plus the search_findings tool call of the agent loop.  *)
(* SpecOwn   : a caller adds the embeddings of its texts, deletes and       *)
(*             searches.                                                   *)
(* SpecStop  : SpecColl with processes that stop inside add or add_batch   *)
(*             and a new process that opens the collection again.          *)
(* SpecRace  : Spec plus a coroutine that enqueues while stop() is         *)
(*             suspended.                                                  *)
(* SpecSnap  : get_statistics and has_source on the loop's thread, step by *)
(*             step, while the consumer's thread stores findings.          *)
(* SpecRun   : AgentLoop.run from start() to the end of run(), with the    *)
(*             consumer of its queue.                                      *)
(***************************************************************************)
EXTENDS Integers, Sequences, FiniteSets, TLC

\* ------------------------------------------------------------------ bounds
\* caller-chosen doc ids offered to Collection.add are 1..NumDocs
NumDocs == 2
\* vectors are points 0..MaxVec of a line; the distance is |a - b|
MaxVec == 1
\* Embeddings constructed by the caller of the collection (SpecColl)
MaxAdds == 2
\* the index starts with room for InitCapacity vectors (1000 in the source,
\* scaled so that growth happens within the bounds)
InitCapacity == 2
\* the least room a resize adds beyond the needed label (1000 in the source)
GrowthMargin == 2
\* tasks enqueued on the queue
MaxEnq == 3
\* start() calls on one queue
MaxStarts == 2
\* stop() calls on one queue
MaxStops == 2
\* Collection calls begun by the two threads together
MaxCalls == 3
\* words of a quote offered to the validator
MaxQuoteWords == 2
\* words of a source page
MaxSourceWords == 3
\* distinct source URLs of the findings
NumUrls == 2
\* Config.MAX_AGENT_TURNS, 100 unless the environment sets it
MaxTurns == 2
\* store_finding tool calls of one model turn
MaxToolCalls == 2

DocIds == 1..NumDocs
Vecs == 0..MaxVec
\* a vector whose length is not the collection's dimension
WrongDim == MaxVec + 1
\* largest k offered to search: above every count the collection can have
MaxK == MaxAdds + 1
\* longest batch offered to add_batch
MaxBatch == MaxAdds

\* ----------------------------------------------------------------- helpers
SetMax(S) == CHOOSE x \in S : \A y \in S : y <= x

Maximum(a, b) == IF a >= b THEN a ELSE b

Minimum(a, b) == IF a <= b THEN a ELSE b

Abs(x) == IF x < 0 THEN -x ELSE x

\* ---------------------------------------------------------------- variables
VARIABLES
    coll,         \* the Collection: metadata rows, index, capacity, index file
    clock,        \* Embeddings constructed so far (source of created_at)
    usedIds,      \* every row id a committed INSERT was given so far
    usedDocs,     \* every doc_id a committed INSERT carried so far
    lastOp,       \* the last collection call and how it ended
    queue,        \* asyncio.Queue items: task ids, 0 is the None sentinel
    unfinished,   \* asyncio.Queue._unfinished_tasks
    joinWoken,    \* the join() waiter's future has been resolved by _finished.set()
    workerTask,   \* FindingQueue._worker_task: 0 is None, else the consumer's id
    nStarted,     \* consumers created so far
    wpc,          \* per consumer: "none", "get", "storing", "resume", "exited"
    wcur,         \* per consumer: the task it took from the queue
    wout,         \* per consumer: how the store call of its thread ended
    stored,       \* FindingQueue._stored_count
    failed,       \* FindingQueue._failed_count
    errors,       \* FindingQueue._errors
    callerPc,     \* the driving coroutine: "idle", "drain_join", "stop_join", "stop_wait"
    lastRet,      \* the last queue call that returned to the caller
    nEnq,         \* enqueue() calls so far; task i is the i-th one
    nStops,       \* stop() calls so far
    drained,      \* how drain() last returned: "no" (never), "at_once", "waited"
    log,          \* store calls begun and ended, in order
    lock,         \* Collection._lock: "free" or the thread that holds it
    thr,          \* per thread: the Collection call it is in, its position and locals
    calls,        \* Collection calls begun by the threads
    stable,       \* rows and index as they were when no mutation was last in progress
    agent,        \* AgentLoop.run: its position, _turn_count, _shutdown_requested
    tool,         \* the store_finding tool call of the agent loop: input, validation, return
    sourceUrls,   \* MemoryTool._source_urls
    hasSource,    \* the last has_source call: its argument and what it returned
    scan,         \* the loop's thread inside get_statistics or has_source: its position
    contexts      \* the store and search calls made so far and the context each ran on

collVars == <<coll, clock, usedIds, usedDocs, lastOp>>
queueVars == <<queue, unfinished, joinWoken, workerTask, nStarted, wpc, wcur, wout,
               stored, failed, errors, callerPc, lastRet, nEnq, nStops, drained, log>>
thrVars == <<lock, thr, calls, stable>>
loopVars == <<tool, contexts, agent>>
memVars == <<sourceUrls, hasSource, scan>>
vars == <<coll, clock, usedIds, usedDocs, lastOp, queue, unfinished, joinWoken, workerTask, nStarted,
          wpc, wcur, wout, stored, failed, errors, callerPc, lastRet, nEnq, nStops,
          drained, log, lock, thr, calls, stable, tool, sourceUrls,
          hasSource, scan, contexts, agent>>

\* ------------------------------------------------- Collection (collection.py)
\* an Embedding: vector, text, doc_id, created_at (default: the time of construction)
Embedding(vector, text, doc_id, created_at) ==
    [vector |-> vector, text |-> text, doc_id |-> doc_id, created_at |-> created_at]

\* the index made by init_index(max_elements=...): no vector, the initial capacity
FreshIndex == [items |-> <<>>, max_elements |-> InitCapacity]

\* Collection.__init__ on a new directory: empty table, fresh index, no index file
NoFile == [exists |-> FALSE, items |-> <<>>, max_elements |-> 0]

NewCollection ==
    [rows |-> {}, items |-> FreshIndex.items, max_elements |-> FreshIndex.max_elements,
     file |-> NoFile]

\* save_index: the file holds the index as it is in memory
SavedIndex(items, max_elements) ==
    [exists |-> TRUE, items |-> items, max_elements |-> max_elements]

\* id INTEGER PRIMARY KEY (no AUTOINCREMENT): SQLite gives a new row the largest
\* row id of the table plus one, 1 on an empty table
NextRowId(rows) == IF rows = {} THEN 1 ELSE SetMax({r.id : r \in rows}) + 1

\* doc_id TEXT UNIQUE NOT NULL: the INSERT raises IntegrityError on a doc_id a row holds
UniqueViolation(rows, doc_id) == \E r \in rows : r.doc_id = doc_id

\* the INSERT of one embedding; cursor.lastrowid is the id of the new row
InsertRow(rows, emb) ==
    rows \cup {[id |-> NextRowId(rows), doc_id |-> emb.doc_id, text |-> emb.text,
                created_at |-> emb.created_at]}

\* an index that is never resized
ResizeNever(current_max, new_count) == current_max

\* _resize_index_if_needed: the new capacity
ResizeIndexIfNeeded(current_max, new_count) ==
    IF new_count >= current_max
    THEN Maximum(current_max * 2, new_count + GrowthMargin)
    ELSE current_max

\* labels an index holds
Labels(items) == DOMAIN items

\* hnswlib add of one point: a label the index holds is updated in place, a new
\* label needs room (cur_element_count < max_elements), else it raises
AddPoint(items, max_elements, label, vector) ==
    IF label \in Labels(items)
    THEN [items |-> [items EXCEPT ![label] = vector], raised |-> FALSE]
    ELSE IF Cardinality(Labels(items)) >= max_elements
         THEN [items |-> items, raised |-> TRUE]
         ELSE [items |-> (label :> vector) @@ items, raised |-> FALSE]

\* index.add_items(vectors, row_ids): the array's dimension is checked before any
\* point is added; then the points are added one by one
RECURSIVE AddPoints(_, _, _, _)
AddPoints(items, max_elements, labels, vectors) ==
    IF labels = <<>>
    THEN [items |-> items, raised |-> FALSE]
    ELSE LET one == AddPoint(items, max_elements, Head(labels), Head(vectors))
         IN IF one.raised
            THEN one
            ELSE AddPoints(one.items, max_elements, Tail(labels), Tail(vectors))

AddItems(items, max_elements, labels, vectors) ==
    IF \E i \in 1..Len(vectors) : vectors[i] = WrongDim
    THEN [items |-> items, raised |-> TRUE]
    ELSE AddPoints(items, max_elements, labels, vectors)

\* what a committed insert is remembered by
Committed(row_id, emb) ==
    [id |-> row_id, doc_id |-> emb.doc_id, text |-> emb.text, vector |-> emb.vector]

\* the part of add and add_batch after the commit: resize, add_items, save_index
IndexAndSave(c, rows, row_ids, vectors, fault, committed) ==
    LET cap == ResizeIndexIfNeeded(c.max_elements, SetMax({row_ids[i] : i \in 1..Len(row_ids)}))
        c1 == [c EXCEPT !.rows = rows, !.max_elements = cap]
        added == AddItems(c.items, cap, row_ids, vectors)
        c2 == [c1 EXCEPT !.items = added.items]
    IN IF added.raised
       THEN [coll |-> c2, raised |-> TRUE, committed |-> committed]
       ELSE IF fault = "save"
            THEN [coll |-> c2, raised |-> TRUE, committed |-> committed]
            ELSE [coll |-> [c2 EXCEPT !.file = SavedIndex(added.items, cap)],
                  raised |-> FALSE, committed |-> committed]

\* Collection.add under the lock: INSERT and commit, then the index, then the file.
\* fault: "none", "insert" (the INSERT raises), "save" (save_index raises)
Add(c, emb, fault) ==
    IF fault = "insert" \/ UniqueViolation(c.rows, emb.doc_id)
    THEN [coll |-> c, raised |-> TRUE, committed |-> {}]
    ELSE LET row_id == NextRowId(c.rows)
         IN IndexAndSave(c, InsertRow(c.rows, emb), <<row_id>>, <<emb.vector>>, fault,
                         {Committed(row_id, emb)})

\* the INSERT loop of add_batch inside one transaction: an IntegrityError leaves
\* the with-block before commit, which rolls every INSERT of the batch back
RECURSIVE InsertAll(_, _)
InsertAll(rows, embeddings) ==
    IF embeddings = <<>>
    THEN [rows |-> rows, raised |-> FALSE, row_ids |-> <<>>, committed |-> {}]
    ELSE LET emb == Head(embeddings)
         IN IF UniqueViolation(rows, emb.doc_id)
            THEN [rows |-> rows, raised |-> TRUE, row_ids |-> <<>>, committed |-> {}]
            ELSE LET rest == InsertAll(InsertRow(rows, emb), Tail(embeddings))
                 IN [rows |-> rest.rows, raised |-> rest.raised,
                     row_ids |-> <<NextRowId(rows)>> \o rest.row_ids,
                     committed |-> {Committed(NextRowId(rows), emb)} \cup rest.committed]

\* Collection.add_batch
AddBatch(c, embeddings, fault) ==
    IF embeddings = <<>>
    THEN [coll |-> c, raised |-> FALSE, committed |-> {}]
    ELSE LET ins == InsertAll(c.rows, embeddings)
         IN IF fault = "insert" \/ ins.raised
            THEN [coll |-> c, raised |-> TRUE, committed |-> {}]
            ELSE IndexAndSave(c, ins.rows, ins.row_ids,
                              [i \in 1..Len(embeddings) |-> embeddings[i].vector],
                              fault, ins.committed)

\* a count that asks the index how many vectors it holds
CountOfIndex(c) == Cardinality(Labels(c.items))

\* Collection.count
Count(c) == Cardinality(c.rows)

\* rows in the order of a table scan: by row id
RECURSIVE RowSeq(_)
RowSeq(rows) ==
    IF rows = {} THEN <<>>
    ELSE LET first == CHOOSE r \in rows : \A o \in rows : r.id <= o.id
         IN <<first>> \o RowSeq(rows \ {first})

\* Collection.get_all(offset, limit): limit 0 stands for None too (`if limit:`);
\* without a limit the statement is `SELECT ... OFFSET ?`, which SQLite rejects
GetAll(c, offset, limit) ==
    IF limit = 0
    THEN [raised |-> TRUE, results |-> <<>>]
    ELSE LET all == RowSeq(c.rows)
             from == Minimum(offset, Len(all)) + 1
             to == Minimum(offset + limit, Len(all))
         IN [raised |-> FALSE,
             results |-> [i \in 1..(to - from + 1) |->
                            Embedding(<<>>, all[from + i - 1].text, all[from + i - 1].doc_id,
                                      all[from + i - 1].created_at)]]

\* a delete that reports a removed row whatever the table held
DeleteAlwaysTrue(c, doc_id) ==
    [coll |-> [c EXCEPT !.rows = {r \in c.rows : r.doc_id # doc_id}], deleted |-> TRUE]

\* Collection.delete: the metadata row goes, the index is not touched
Delete(c, doc_id) ==
    [coll |-> [c EXCEPT !.rows = {r \in c.rows : r.doc_id # doc_id}],
     deleted |-> \E r \in c.rows : r.doc_id = doc_id]

\* a clear that empties the table and keeps the index it had
ClearKeepsIndex(c, fault) ==
    IF fault = "save"
    THEN [coll |-> [c EXCEPT !.rows = {}], raised |-> TRUE]
    ELSE [coll |-> [c EXCEPT !.rows = {}, !.file = SavedIndex(c.items, c.max_elements)],
          raised |-> FALSE]

\* Collection.clear: every row goes, a fresh index replaces the old one and is saved
Clear(c, fault) ==
    LET c1 == [c EXCEPT !.rows = {}, !.items = FreshIndex.items,
                        !.max_elements = FreshIndex.max_elements]
    IN IF fault = "save"
       THEN [coll |-> c1, raised |-> TRUE]
       ELSE [coll |-> [c1 EXCEPT !.file = SavedIndex(FreshIndex.items, FreshIndex.max_elements)],
             raised |-> FALSE]

\* distance of hnswlib between the query and a stored vector
Distance(q, v) == Abs(q - v)

\* sequences of n distinct elements of S
RECURSIVE Arrangements(_, _)
Arrangements(S, n) ==
    IF n = 0 THEN {<<>>}
    ELSE UNION {{<<x>> \o t : t \in Arrangements(S \ {x}, n - 1)} : x \in S}

\* index.knn_query(q, k): it raises when the index cannot give k labels; else the k
\* nearest labels, nearest first, ties in any order
KnnRaises(items, k) == Cardinality(Labels(items)) < k

KnnQuery(items, q, k) ==
    {s \in Arrangements(Labels(items), k) :
        /\ \A i \in 1..(k - 1) : Distance(q, items[s[i]]) <= Distance(q, items[s[i + 1]])
        /\ \A l \in Labels(items) \ {s[i] : i \in 1..k} :
              \A i \in 1..k : Distance(q, items[s[i]]) <= Distance(q, items[l])}

\* a loop that reports a label with no metadata row as an empty record
RECURSIVE FetchRowsReportsMissing(_, _, _, _)
FetchRowsReportsMissing(rows, items, q, row_ids) ==
    IF row_ids = <<>> THEN <<>>
    ELSE LET hit == {r \in rows : r.id = Head(row_ids)}
             rest == FetchRowsReportsMissing(rows, items, q, Tail(row_ids))
             row == IF hit = {} THEN [doc_id |-> 0, text |-> 0, created_at |-> 0]
                    ELSE CHOOSE r \in hit : TRUE
         IN <<[doc_id |-> row.doc_id, text |-> row.text,
               created_at |-> row.created_at,
               distance |-> Distance(q, items[Head(row_ids)])]>> \o rest

\* the loop of search over the labels: a label with no metadata row is skipped
RECURSIVE FetchRows(_, _, _, _)
FetchRows(rows, items, q, row_ids) ==
    IF row_ids = <<>> THEN <<>>
    ELSE LET hit == {r \in rows : r.id = Head(row_ids)}
             rest == FetchRows(rows, items, q, Tail(row_ids))
         IN IF hit = {} THEN rest
            ELSE LET row == CHOOSE r \in hit : TRUE
                 IN <<[doc_id |-> row.doc_id, text |-> row.text,
                       created_at |-> row.created_at,
                       distance |-> Distance(q, items[Head(row_ids)])]>> \o rest

\* search that hands the caller's k to the index as it is
ClampKNone(k, current_count) == k

\* search asks the index for no more labels than the table has rows
ClampK(k, current_count) == Minimum(k, current_count)

\* Collection.search: the outcomes it can have (one per order of tied labels)
Search(c, q, k) ==
    LET current_count == Count(c)
        kk == ClampK(k, current_count)
    IN IF current_count = 0
       THEN {[raised |-> FALSE, results |-> <<>>]}
       ELSE IF KnnRaises(c.items, kk)
            THEN {[raised |-> TRUE, results |-> <<>>]}
            ELSE {[raised |-> FALSE, results |-> FetchRows(c.rows, c.items, q, s)] :
                     s \in KnnQuery(c.items, q, kk)}

\* ------------------------------------------------------- calls on a Collection
\* what the last call on the collection was given (k of search, the length of the
\* batch, limit and offset of get_all, doc_id of delete; 0 where the call has none)
\* and gave back
OpResult(op, raised, results, k, deleted, doc_id) ==
    [op |-> op, raised |-> raised, results |-> results, k |-> k, deleted |-> deleted,
     doc_id |-> doc_id, offset |-> 0]

Faults == {"none", "insert", "save"}

\* the caller constructs an Embedding and calls add
DoAdd ==
    /\ clock < MaxAdds
    /\ \E doc_id \in DocIds, vector \in Vecs \cup {WrongDim}, fault \in Faults :
          LET emb == Embedding(vector, clock + 1, doc_id, clock + 1)
              r == Add(coll, emb, fault)
          IN /\ coll' = r.coll
             /\ usedIds' = usedIds \cup {x.id : x \in r.committed}
             /\ usedDocs' = usedDocs \cup {x.doc_id : x \in r.committed}
             /\ lastOp' = OpResult("add", r.raised, <<>>, 0, FALSE, 0)
    /\ clock' = clock + 1
    /\ UNCHANGED <<queueVars, loopVars, memVars, thrVars>>

\* the batches of n embeddings a caller can construct at time t
Batches(n, t) ==
    {[i \in 1..n |-> Embedding(vs[i], t + i, ds[i], t + i)] :
        vs \in [1..n -> Vecs \cup {WrongDim}], ds \in [1..n -> DocIds]}

DoAddBatch ==
    \E n \in 0..MaxBatch :
        /\ clock + n <= MaxAdds
        /\ \E embeddings \in Batches(n, clock), fault \in Faults :
              LET r == AddBatch(coll, embeddings, fault)
              IN /\ coll' = r.coll
                 /\ usedIds' = usedIds \cup {x.id : x \in r.committed}
                 /\ usedDocs' = usedDocs \cup {x.doc_id : x \in r.committed}
                 /\ lastOp' = OpResult("add_batch", r.raised, <<>>, n, FALSE, 0)
        /\ clock' = clock + n
        /\ UNCHANGED <<queueVars, loopVars, memVars, thrVars>>

DoDelete ==
    /\ \E doc_id \in DocIds :
          LET r == Delete(coll, doc_id)
          IN /\ coll' = r.coll
             /\ lastOp' = OpResult("delete", FALSE, <<>>, 0, r.deleted, doc_id)
    /\ UNCHANGED <<clock, usedIds, usedDocs, queueVars, loopVars, memVars, thrVars>>

DoClear ==
    /\ \E fault \in {"none", "save"} :
          LET r == Clear(coll, fault)
          IN /\ coll' = r.coll
             /\ lastOp' = OpResult("clear", r.raised, <<>>, 0, FALSE, 0)
    /\ UNCHANGED <<clock, usedIds, usedDocs, queueVars, loopVars, memVars, thrVars>>

DoSearch ==
    /\ \E q \in Vecs, k \in 1..MaxK :
          \E r \in Search(coll, q, k) :
              lastOp' = OpResult("search", r.raised, r.results, k, FALSE, 0)
    /\ UNCHANGED <<coll, clock, usedIds, usedDocs, queueVars, loopVars, memVars, thrVars>>

\* get_all(offset, limit); limit 0 is the call that gives no limit (None)
DoGetAll ==
    /\ \E offset \in 0..MaxAdds, limit \in 0..MaxAdds :
          LET r == GetAll(coll, offset, limit)
          IN lastOp' = [OpResult("get_all", r.raised, r.results, limit, FALSE, 0)
                           EXCEPT !.offset = offset]
    /\ UNCHANGED <<coll, clock, usedIds, usedDocs, queueVars, loopVars, memVars, thrVars>>

\* the embedder in document mode: a vector of the collection's dimension
EmbedSingle(text) == text % (MaxVec + 1)

\* uuid4: an id no earlier call produced, outside the caller-chosen ids
Uuid4(n) == NumDocs + n

\* ------------------------------------ Collection calls from two threads at once
\* the thread of asyncio.to_thread that stores a finding, and the thread of the
\* event loop, which calls search_findings while a store call is running
Threads == {"worker", "caller"}

\* rows and index of a collection: what a search reads
View(c) == [rows |-> c.rows, items |-> c.items]

IdleThread ==
    [pc |-> "idle", op |-> "none", embs |-> <<>>, doc_id |-> 0, q |-> 0, k |-> 0, kk |-> 0,
     row_ids |-> <<>>, dists |-> <<>>, results |-> <<>>, cands |-> {}]

\* a lock that any thread can take at any time
LockAlwaysFree(l) == TRUE

\* threading.Lock: `with self._lock:` goes on only when no thread holds the lock
LockFree(l) == l = "free"

\* inside `with self._lock:` of add, add_batch, delete, clear or search
InCritical(t) == thr[t].pc \in {"commit", "index", "save", "knn"}

Mutations == {"add", "add_batch", "delete", "clear"}

Searching(t) == thr[t].op = "search" /\ thr[t].pc # "idle"

\* the threads as they are after the call of thread t returned or raised (its
\* locals are gone) and, when `released`, a mutation left its critical section:
\* every search in progress has one more state of the collection that it overlapped
ThreadsAfter(t, released, c) ==
    [u \in Threads |->
        IF u = t THEN IdleThread
        ELSE IF released /\ Searching(u)
             THEN [thr[u] EXCEPT !.cands = @ \cup {View(c)}]
             ELSE thr[u]]

\* an Embedding of a text made at time t: its vector is what the embedder gives
Embedded(t, doc_id) == Embedding(EmbedSingle(t), t, doc_id, t)

\* a thread calls into the collection: the worker thread add, with the Embedding
\* that store_finding makes; the caller add, add_batch, delete, clear or search
TBegin(t) ==
    /\ thr[t].pc = "idle"
    /\ calls < MaxCalls
    /\ calls' = calls + 1
    /\ \/ /\ t = "worker"
          /\ thr' = [thr EXCEPT ![t] = [IdleThread EXCEPT !.pc = "lock", !.op = "add",
                        !.embs = <<Embedded(clock + 1, Uuid4(clock + 1))>>]]
          /\ clock' = clock + 1
       \/ \E d \in DocIds :
             /\ t = "caller"
             /\ thr' = [thr EXCEPT ![t] = [IdleThread EXCEPT !.pc = "lock", !.op = "add",
                           !.embs = <<Embedded(clock + 1, d)>>]]
             /\ clock' = clock + 1
       \/ \E d1, d2 \in DocIds :
             /\ t = "caller"
             /\ thr' = [thr EXCEPT ![t] = [IdleThread EXCEPT !.pc = "lock",
                           !.op = "add_batch",
                           !.embs = <<Embedded(clock + 1, d1), Embedded(clock + 2, d2)>>]]
             /\ clock' = clock + 2
       \/ \E d \in DocIds :
             /\ t = "caller"
             /\ thr' = [thr EXCEPT ![t] = [IdleThread EXCEPT !.pc = "lock", !.op = "delete",
                           !.doc_id = d]]
             /\ clock' = clock
       \/ /\ t = "caller"
          /\ thr' = [thr EXCEPT ![t] = [IdleThread EXCEPT !.pc = "lock", !.op = "clear"]]
          /\ clock' = clock
       \/ \E q \in Vecs, k \in 1..MaxK :
             /\ t = "caller"
             /\ thr' = [thr EXCEPT ![t] = [IdleThread EXCEPT !.pc = "count", !.op = "search",
                           !.q = q, !.k = k, !.cands = {stable}]]
             /\ clock' = clock
    /\ UNCHANGED <<coll, usedIds, usedDocs, lastOp, queueVars, loopVars, memVars, lock, stable>>

\* `with self._lock:` is entered
TAcquire(t) ==
    /\ thr[t].pc = "lock"
    /\ LockFree(lock)
    /\ lock' = t
    /\ thr' = [thr EXCEPT ![t].pc = IF thr[t].op = "search" THEN "knn" ELSE "commit"]
    /\ UNCHANGED <<collVars, queueVars, loopVars, memVars, calls, stable>>

\* the statements on the table and their commit: the INSERTs of add and add_batch
\* (an IntegrityError leaves the with-blocks), the DELETE of delete, which then
\* returns, and the DELETE of clear
TCommit(t) ==
    /\ thr[t].pc = "commit"
    /\ LET me == thr[t]
           ins == InsertAll(coll.rows, me.embs)
           del == Delete(coll, me.doc_id)
       IN \/ /\ me.op \in {"add", "add_batch"} /\ ins.raised
             /\ coll' = coll
             /\ UNCHANGED <<usedIds, usedDocs>>
             /\ lock' = "free"
             /\ stable' = View(coll')
             /\ thr' = ThreadsAfter(t, TRUE, coll')
          \/ /\ me.op \in {"add", "add_batch"} /\ ~ins.raised
             /\ coll' = [coll EXCEPT !.rows = ins.rows]
             /\ usedIds' = usedIds \cup {x.id : x \in ins.committed}
             /\ usedDocs' = usedDocs \cup {x.doc_id : x \in ins.committed}
             /\ UNCHANGED <<lock, stable>>
             /\ thr' = [thr EXCEPT ![t] = [me EXCEPT !.pc = "index", !.row_ids = ins.row_ids]]
          \/ /\ me.op = "delete"
             /\ coll' = del.coll
             /\ UNCHANGED <<usedIds, usedDocs>>
             /\ lock' = "free"
             /\ stable' = View(coll')
             /\ thr' = ThreadsAfter(t, TRUE, coll')
          \/ /\ me.op = "clear"
             /\ coll' = [coll EXCEPT !.rows = {}]
             /\ UNCHANGED <<usedIds, usedDocs, lock, stable>>
             /\ thr' = [thr EXCEPT ![t].pc = "index"]
    /\ UNCHANGED <<clock, lastOp, queueVars, loopVars, memVars, calls>>

\* the statements on the index: resize and add_items of add and add_batch (an
\* exception of add_items leaves the with-block), the new empty index of clear
TIndex(t) ==
    /\ thr[t].pc = "index"
    /\ LET me == thr[t]
           cap == ResizeIndexIfNeeded(coll.max_elements,
                                      SetMax({me.row_ids[i] : i \in 1..Len(me.row_ids)}))
           added == AddItems(coll.items, cap, me.row_ids,
                             [i \in 1..Len(me.embs) |-> me.embs[i].vector])
       IN \/ /\ me.op \in {"add", "add_batch"} /\ added.raised
             /\ coll' = [coll EXCEPT !.max_elements = cap, !.items = added.items]
             /\ lock' = "free"
             /\ stable' = View(coll')
             /\ thr' = ThreadsAfter(t, TRUE, coll')
          \/ /\ me.op \in {"add", "add_batch"} /\ ~added.raised
             /\ coll' = [coll EXCEPT !.max_elements = cap, !.items = added.items]
             /\ UNCHANGED <<lock, stable>>
             /\ thr' = [thr EXCEPT ![t].pc = "save"]
          \/ /\ me.op = "clear"
             /\ coll' = [coll EXCEPT !.items = FreshIndex.items,
                                     !.max_elements = FreshIndex.max_elements]
             /\ UNCHANGED <<lock, stable>>
             /\ thr' = [thr EXCEPT ![t].pc = "save"]
    /\ UNCHANGED <<clock, usedIds, usedDocs, lastOp, queueVars, loopVars, memVars, calls>>

\* save_index, the last statement inside the lock of add, add_batch and clear
TSave(t) ==
    /\ thr[t].pc = "save"
    /\ coll' = [coll EXCEPT !.file = SavedIndex(coll.items, coll.max_elements)]
    /\ lock' = "free"
    /\ stable' = View(coll')
    /\ thr' = ThreadsAfter(t, TRUE, coll')
    /\ UNCHANGED <<clock, usedIds, usedDocs, lastOp, queueVars, loopVars, memVars, calls>>

\* search: current_count = self.count(), outside the lock; [] on an empty table
TCount(t) ==
    /\ thr[t].pc = "count"
    /\ thr' = [thr EXCEPT ![t] =
                  IF Count(coll) = 0
                  THEN IdleThread
                  ELSE [@ EXCEPT !.pc = "lock", !.kk = ClampK(thr[t].k, Count(coll))]]
    /\ UNCHANGED <<collVars, queueVars, loopVars, memVars, lock, calls, stable>>

\* search: knn_query inside the lock; an exception leaves the with-block
TKnn(t) ==
    /\ thr[t].pc = "knn"
    /\ lock' = "free"
    /\ IF KnnRaises(coll.items, thr[t].kk)
       THEN thr' = [thr EXCEPT ![t] = IdleThread]
       ELSE \E s \in KnnQuery(coll.items, thr[t].q, thr[t].kk) :
               thr' = [thr EXCEPT ![t] =
                          [@ EXCEPT !.pc = "fetch", !.row_ids = s,
                                    !.dists = [i \in 1..Len(s) |->
                                                  Distance(thr[t].q, coll.items[s[i]])]]]
    /\ UNCHANGED <<collVars, queueVars, loopVars, memVars, calls, stable>>

\* search: one SELECT per label, outside the lock; a label with no row is skipped
TFetch(t) ==
    /\ thr[t].pc = "fetch"
    /\ LET me == thr[t]
           hit == {r \in coll.rows : r.id = Head(me.row_ids)}
           found == IF hit = {} THEN <<>>
                    ELSE LET row == CHOOSE r \in hit : TRUE
                         IN <<[doc_id |-> row.doc_id, text |-> row.text,
                               created_at |-> row.created_at,
                               distance |-> Head(me.dists)]>>
       IN IF me.row_ids = <<>>
          THEN thr' = [thr EXCEPT ![t] = IdleThread]
          ELSE thr' = [thr EXCEPT ![t] =
                          [me EXCEPT !.row_ids = Tail(me.row_ids), !.dists = Tail(me.dists),
                                     !.results = me.results \o found]]
    /\ UNCHANGED <<collVars, queueVars, loopVars, memVars, lock, calls, stable>>

\* ---------------------------------------------------------------------- Init
\* ------------------------------- quote validator (tools/quote_validator.py)
\* a text is a sequence of characters; an Optional[str] is None or Some(text)
None == [some |-> FALSE, text |-> <<>>]

Some(text) == [some |-> TRUE, text |-> text]

\* `is not None` where the code tests truth
IsNotNone(o) == o.some

\* Python truth of an Optional[str]: neither None nor ''
Truthy(o) == o.some /\ o.text # <<>>

\* \s of the regular expression, and the whitespace of str.split and str.strip
IsSpace(c) == c = " "

LowerChar(c) == CASE c = "S" -> "s" [] c = "B" -> "b" [] OTHER -> c

\* str.lower
Lower(text) == [i \in 1..Len(text) |-> LowerChar(text[i])]

RECURSIVE LStrip(_)
LStrip(text) ==
    IF text # <<>> /\ IsSpace(Head(text)) THEN LStrip(Tail(text)) ELSE text

RECURSIVE RStrip(_)
RStrip(text) ==
    IF text # <<>> /\ IsSpace(text[Len(text)])
    THEN RStrip(SubSeq(text, 1, Len(text) - 1))
    ELSE text

\* str.strip
Strip(text) == LStrip(RStrip(text))

\* re.sub(r'\s+', ' ', text): every maximal run of whitespace becomes one space
RECURSIVE CollapseWhitespace(_)
CollapseWhitespace(text) ==
    IF text = <<>> THEN <<>>
    ELSE IF IsSpace(Head(text))
         THEN <<" ">> \o CollapseWhitespace(LStrip(text))
         ELSE <<Head(text)>> \o CollapseWhitespace(Tail(text))

\* str.split(): the maximal runs of non-whitespace, in order
RECURSIVE SplitWords(_, _)
SplitWords(text, word) ==
    IF text = <<>> THEN (IF word = <<>> THEN <<>> ELSE <<word>>)
    ELSE IF IsSpace(Head(text))
         THEN (IF word = <<>> THEN <<>> ELSE <<word>>) \o SplitWords(Tail(text), <<>>)
         ELSE SplitWords(Tail(text), Append(word, Head(text)))

Split(text) == SplitWords(text, <<>>)

\* sep.join(words)
RECURSIVE JoinWith(_, _)
JoinWith(words, sep) ==
    IF words = <<>> THEN <<>>
    ELSE IF Len(words) = 1 THEN words[1]
         ELSE words[1] \o sep \o JoinWith(Tail(words), sep)

\* ' '.join(words)
Join(words) == JoinWith(words, <<" ">>)

\* words[i:j] of a list (0-based, j exclusive)
Slice(words, i, j) == SubSeq(words, i + 1, j)

\* a test that finds a only at the start of b
ContainsAtStart(a, b) ==
    Len(a) <= Len(b) /\ \A j \in 1..Len(a) : b[j] = a[j]

\* a in b for strings
Contains(a, b) ==
    \E i \in 1..(Len(b) + 1 - Len(a)) : \A j \in 1..Len(a) : b[i + j - 1] = a[j]

normalize_text(text) == Lower(Strip(CollapseWhitespace(text)))

\* find_exact_match: None when the normalized quote is not in the normalized source;
\* else the first window of len(normalized_words) source words that normalizes to the
\* quote; else the quote as it was given
find_exact_match(quote, source_text) ==
    LET normalized_quote == normalize_text(quote)
        normalized_source == normalize_text(source_text)
        original_words == Split(source_text)
        n == Len(Split(normalized_quote))
        hits == {i \in 0..(Len(original_words) - n) :
                    normalize_text(Join(Slice(original_words, i, i + n))) = normalized_quote}
    IN IF Contains(normalized_quote, normalized_source)
       THEN IF hits # {}
            THEN LET i == CHOOSE h \in hits : \A g \in hits : h <= g
                 IN Some(Join(Slice(original_words, i, i + n)))
            ELSE Some(quote)
       ELSE None

\* ratios are fractions num/den
Ratio(num, den) == [num |-> num, den |-> den]

RatioGE(r, s) == r.num * s.den >= s.num * r.den

RatioGT(r, s) == r.num * s.den > s.num * r.den

RatioEq(r, s) == r.num * s.den = s.num * r.den

\* one row of the longest-common-subsequence table, built left to right: cur holds
\* its columns 0..Len(cur)-1, prev is the row above
RECURSIVE LcsRow(_, _, _, _)
LcsRow(ch, b, prev, cur) ==
    LET j == Len(cur)
    IN IF j > Len(b) THEN cur
       ELSE LcsRow(ch, b, prev,
                   Append(cur, IF ch = b[j] THEN prev[j] + 1
                               ELSE Maximum(prev[j + 1], cur[j])))

\* the last cell of the table whose row for the characters before `a` is prev
RECURSIVE LcsRows(_, _, _)
LcsRows(a, b, prev) ==
    IF a = <<>> \/ prev[Len(prev)] = Len(b) THEN prev[Len(prev)]
    ELSE LcsRows(Tail(a), b, LcsRow(Head(a), b, prev, <<0>>))

\* length of the longest common subsequence of a and b
Lcs(a, b) == LcsRows(a, b, [j \in 1..(Len(b) + 1) |-> 0])

\* fuzz.ratio(a, b) / 100.0: the normalized Indel similarity, 2 * lcs / (len a + len b)
FuzzRatio(a, b) == Ratio(2 * Lcs(a, b), Len(a) + Len(b))

\* the default of min_fuzzy_ratio (0.9), the only value the loop passes
MinFuzzyRatio == Ratio(9, 10)

\* the ratio from which the scan stops at once (0.98)
EarlyExitRatio == Ratio(98, 100)

\* a scan that takes every window as the best so far
IsBetterAlways(ratio, best_ratio) == TRUE

\* a scan that never records a window
IsBetterNever(ratio, best_ratio) == FALSE

\* `ratio > best_ratio`: a window replaces the best only when strictly better
IsBetter(ratio, best_ratio) == RatioGT(ratio, best_ratio)

\* the two loops of find_fuzzy_match from window size `size`, position i on, with
\* the best window so far; top is the largest window size of the range
RECURSIVE FuzzyScan(_, _, _, _, _, _, _, _)
FuzzyScan(normalized_quote, original, normalized, min_ratio, top, size, i, best) ==
    IF size > top
    THEN IF RatioGE(best.ratio, min_ratio)
         THEN [match |-> Some(Join(Slice(original, best.start, best.end))),
               ratio |-> best.ratio]
         ELSE [match |-> None, ratio |-> best.ratio]
    ELSE IF i > Len(original) - size
         THEN FuzzyScan(normalized_quote, original, normalized, min_ratio, top,
                        size + 1, 0, best)
         ELSE LET window_normalized == Join(Slice(normalized, i, i + size))
                  ratio == FuzzRatio(normalized_quote, window_normalized)
              IN IF IsBetter(ratio, best.ratio)
                 THEN IF RatioGE(ratio, EarlyExitRatio)
                      THEN [match |-> Some(Join(Slice(original, i, i + size))),
                            ratio |-> ratio]
                      ELSE FuzzyScan(normalized_quote, original, normalized, min_ratio,
                                     top, size, i + 1,
                                     [ratio |-> ratio, start |-> i, end |-> i + size])
                 ELSE FuzzyScan(normalized_quote, original, normalized, min_ratio,
                                top, size, i + 1, best)

\* find_fuzzy_match: (matched text or None, best ratio)
find_fuzzy_match(quote, source_text, min_ratio) ==
    LET normalized_quote == normalize_text(quote)
        quote_word_count == Len(Split(normalized_quote))
        source_words_original == Split(source_text)
        source_words_normalized ==
            [w \in 1..Len(source_words_original) |-> Lower(source_words_original[w])]
        min_window == Maximum(1, quote_word_count - 5)
        max_window == quote_word_count + 5
    IN IF quote_word_count = 0
       THEN [match |-> None, ratio |-> Ratio(0, 1)]
       ELSE FuzzyScan(normalized_quote, source_words_original, source_words_normalized,
                      min_ratio, Minimum(max_window, Len(source_words_original)),
                      min_window, 0, [ratio |-> Ratio(0, 1), start |-> 0, end |-> 0])

\* QuoteValidationResult; phase (not in the source) is the step that produced it
QuoteValidationResult(valid, matched_text, match_ratio, error, phase) ==
    [valid |-> valid, matched_text |-> matched_text, match_ratio |-> match_ratio,
     error |-> error, phase |-> phase]

\* the least number of non-blank characters of a readable page
MinReadable == 10

\* validate_direct_quote: page is what get_page_content gave (ok = it did not raise)
validate_direct_quote(quote, page, min_fuzzy_ratio) ==
    IF ~page.ok
    THEN QuoteValidationResult(FALSE, None, Ratio(0, 1),
                               "Failed to fetch source URL", "fetch")
    ELSE IF page.text = <<>> \/ Len(Strip(page.text)) < MinReadable
    THEN QuoteValidationResult(FALSE, None, Ratio(0, 1),
                               "Source page has no readable content", "content")
    ELSE LET exact_match == find_exact_match(quote, page.text)
             fuzzy == find_fuzzy_match(quote, page.text, min_fuzzy_ratio)
         IN IF Truthy(exact_match)
            THEN QuoteValidationResult(TRUE, exact_match, Ratio(1, 1), "None", "exact")
            ELSE IF Truthy(fuzzy.match)
            THEN QuoteValidationResult(TRUE, fuzzy.match, fuzzy.ratio, "None", "fuzzy")
            ELSE QuoteValidationResult(FALSE, None, fuzzy.ratio,
                                       "Quote not found in source", "fuzzy")

\* ------------------------------------------------ agent loop (agent/loop.py)
\* words of the quotes the agent claims
QuoteWords == {<<"s", "k", "y">>, <<"B", "l", "u", "e">>}

\* words of the source pages
SourceWords ==
    {<<"S", "k", "y">>, <<"b", "l", "u", "e">>, <<"b", "l", "u", "e", ".">>}

WordSeqs(words, n) == UNION {[1..k -> words] : k \in 0..n}

\* the words one space apart
Tight(words) == Join(words)

\* the words three spaces apart, a space before and after
Loose(words) == <<" ">> \o JoinWith(words, <<" ", " ", " ">>) \o <<" ">>

\* quotes the model offers as tool_input["text"]
Quotes == {Tight(w) : w \in WordSeqs(QuoteWords, MaxQuoteWords)}
              \cup {Loose(w) : w \in WordSeqs(QuoteWords, MaxQuoteWords)}

\* a page of more words than the largest window the fuzzy phase tries for any quote
LongPage ==
    [i \in 1..(MaxQuoteWords + 6) |->
        IF i = 1 THEN <<"b", "l", "u", "e", ".">> ELSE <<"S", "k", "y">>]

\* page texts browser_tool.get_page_content can give
Sources == {Tight(w) : w \in WordSeqs(SourceWords, MaxSourceWords)}
               \cup {Loose(w) : w \in WordSeqs(SourceWords, MaxSourceWords)}
               \cup {Tight(LongPage), Loose(LongPage)}

\* get_page_content raised
FetchFailed == [ok |-> FALSE, text |-> <<>>]

Pages == {[ok |-> TRUE, text |-> t] : t \in Sources} \cup {FetchFailed}

FindingTypes == {"direct_quote", "paraphrase", "summary"}

\* no validation was made
NoValidation == QuoteValidationResult(FALSE, None, Ratio(0, 1), "None", "none")

\* no StorageTask was made
NoTask == [text |-> None, finding_type |-> "none"]

StorageTask(text, finding_type) == [text |-> text, finding_type |-> finding_type]

\* a store_finding tool call the loop has not executed yet
ToolCall(text, page) ==
    [text |-> text, page |-> page, finding_type |-> "none", validation |-> NoValidation,
     task |-> NoTask, ret |-> [status |-> "none"]]

\* a loop that takes every validation result as valid
RejectsNever(finding_type, validation) == FALSE

\* `if not validation.valid`, for a direct quote
Rejects(finding_type, validation) ==
    finding_type = "direct_quote" /\ ~validation.valid

\* _execute_tool, branch store_finding: what it returns and the task it enqueues
ExecuteTool(text, page, finding_type) ==
    LET validation == IF finding_type = "direct_quote"
                      THEN validate_direct_quote(text, page, MinFuzzyRatio)
                      ELSE NoValidation
        text_to_store == IF finding_type = "direct_quote"
                         THEN validation.matched_text
                         ELSE Some(text)
    IN IF Rejects(finding_type, validation)
       THEN [validation |-> validation, task |-> NoTask,
             ret |-> [status |-> "error", error |-> validation.error,
                      finding_type |-> finding_type,
                      suggestion |-> "Use 'paraphrase' or 'summary' instead, or copy the exact text from the source."]]
       ELSE [validation |-> validation,
             task |-> StorageTask(text_to_store, finding_type),
             ret |-> [status |-> "queued", finding_type |-> finding_type]]

\* ------------------------------------------------------------ initial states
\* the store after construction and initialize()
InitStore ==
    /\ coll = NewCollection
    /\ clock = 0
    /\ usedIds = {}
    /\ usedDocs = {}
    /\ lastOp = OpResult("init", FALSE, <<>>, 0, FALSE, 0)
    /\ queue = <<>>
    /\ unfinished = 0
    /\ joinWoken = FALSE
    /\ workerTask = 0
    /\ nStarted = 0
    /\ wpc = [w \in 1..MaxStarts |-> "none"]
    /\ wcur = [w \in 1..MaxStarts |-> 0]
    /\ wout = [w \in 1..MaxStarts |-> "none"]
    /\ stored = 0
    /\ failed = 0
    /\ errors = <<>>
    /\ callerPc = "idle"
    /\ lastRet = "none"
    /\ nEnq = 0
    /\ nStops = 0
    /\ drained = "no"
    /\ log = <<>>
    /\ lock = "free"
    /\ thr = [t \in Threads |-> IdleThread]
    /\ calls = 0
    /\ stable = View(NewCollection)
    /\ sourceUrls = {}
    /\ hasSource = [url |-> <<>>, ret |-> FALSE]
    /\ scan = [pc |-> "idle", url |-> <<>>, used |-> 0, left |-> {}]
    /\ contexts = {}
    /\ agent = [pc |-> "loop", turns |-> 0, shutdown |-> FALSE, calls |-> 0,
                left |-> "no"]

\* no store_finding tool call is under way
Init == InitStore /\ tool = ToolCall(<<>>, FetchFailed)

\* the agent loop is about to execute a store_finding tool call
InitLoop ==
    /\ InitStore
    /\ \E text \in Quotes, page \in Pages : tool = ToolCall(text, page)

NextColl == DoAdd \/ DoAddBatch \/ DoDelete \/ DoClear \/ DoSearch

SpecColl == Init /\ [][NextColl]_vars

\* a caller that adds and removes single records and pages through the collection
\* with get_all
NextRead == DoAdd \/ DoDelete \/ DoClear \/ DoGetAll

SpecRead == Init /\ [][NextRead]_vars

\* add by a caller that embeds the text of its record, as store_finding does; the
\* embedder's vector has the collection's dimension or, with another model
\* configured, another length
OwnAdd ==
    /\ clock < MaxEnq
    /\ \E vector \in {EmbedSingle(clock + 1), WrongDim}, fault \in Faults :
          LET emb == Embedding(vector, clock + 1, Uuid4(clock + 1), clock + 1)
              r == Add(coll, emb, fault)
          IN /\ coll' = r.coll
             /\ usedIds' = usedIds \cup {x.id : x \in r.committed}
             /\ usedDocs' = usedDocs \cup {x.doc_id : x \in r.committed}
             /\ lastOp' = OpResult("add", r.raised, <<>>, 0, FALSE, emb.doc_id)
    /\ clock' = clock + 1
    /\ UNCHANGED <<queueVars, loopVars, memVars, thrVars>>

\* delete of a record the caller has added
OwnDelete ==
    /\ \E doc_id \in {Uuid4(n) : n \in 1..clock} :
          LET r == Delete(coll, doc_id)
          IN /\ coll' = r.coll
             /\ lastOp' = OpResult("delete", FALSE, <<>>, 0, r.deleted, doc_id)
    /\ UNCHANGED <<clock, usedIds, usedDocs, queueVars, loopVars, memVars, thrVars>>

\* the collection under a caller that adds the embeddings of its texts, deletes
\* and searches
NextOwn == OwnAdd \/ OwnDelete \/ DoSearch

SpecOwn == Init /\ [][NextOwn]_vars

NextThr ==
    \E t \in Threads :
        TBegin(t) \/ TAcquire(t) \/ TCommit(t) \/ TIndex(t) \/ TSave(t)
            \/ TCount(t) \/ TKnn(t) \/ TFetch(t)

SpecThr == Init /\ [][NextThr]_vars

\* ----------------------------------------------- the loop's store_finding call
\* _execute_tool("store_finding", tool_input): validate a direct quote, then either
\* return the error or enqueue the StorageTask (FindingQueue.enqueue) and return
ExecuteStoreFinding ==
    /\ tool.ret.status = "none"
    /\ callerPc = "idle"
    /\ \E finding_type \in FindingTypes :
          LET r == ExecuteTool(tool.text, tool.page, finding_type)
          IN /\ tool' = [tool EXCEPT !.finding_type = finding_type,
                                     !.validation = r.validation,
                                     !.task = r.task,
                                     !.ret = r.ret]
             /\ IF r.ret.status = "queued"
                THEN /\ nEnq' = nEnq + 1
                     /\ queue' = Append(queue, nEnq + 1)
                     /\ unfinished' = unfinished + 1
                     /\ lastRet' = "enqueue"
                ELSE UNCHANGED <<nEnq, queue, unfinished, lastRet>>
    /\ UNCHANGED <<collVars, thrVars, memVars, contexts, agent, joinWoken, workerTask, nStarted, wpc, wcur,
                   wout, stored, failed, errors, callerPc, nStops, drained, log>>

NextLoop == ExecuteStoreFinding

SpecLoop == InitLoop /\ [][NextLoop]_vars

\* ------------------------------------------------- MemoryTool (tools/memory.py)
\* urls as the agent writes them: letter case and trailing slashes vary
Urls == << <<"S", "/">>, <<"s">>, <<"b", "/", "/">>, <<"s", "/", "b">>, <<"B">>,
          <<"s", "/", "/">>, <<"/">>, <<>> >>

\* finding.citation.source_url of the finding whose text is `text`: findings share
\* the first NumUrls urls
SourceUrl(text) == Urls[(text % NumUrls) + 1]

\* models/findings.py. A Python value is None or Some(v); a dict is a function
\* from its keys
Citation(source_url, title, author, publication_date, accessed_date) ==
    [source_url |-> source_url, title |-> title, author |-> author,
     publication_date |-> publication_date, accessed_date |-> accessed_date]

Finding(text, citation, relevance_notes, finding_type, confidence, doc_id) ==
    [text |-> text, citation |-> citation, relevance_notes |-> relevance_notes,
     finding_type |-> finding_type, confidence |-> confidence, doc_id |-> doc_id]

FindingTypeOf(text) ==
    CASE text % 4 = 0 -> "direct_quote" [] text % 4 = 1 -> "paraphrase"
      [] text % 4 = 2 -> "summary" [] OTHER -> "synthesis"

\* the finding with the text `text` as a caller of store_finding makes it: author
\* and publication date are optional, relevance notes may be '', confidence 0 or 1;
\* accessed_date is the time of construction
FindingOf(text) ==
    Finding(text,
            Citation(Some(SourceUrl(text)), Some(<<"t", "i">>),
                     IF text % 2 = 0 THEN None ELSE Some(<<"a">>),
                     IF text % 3 = 0 THEN None ELSE Some(<<"d">>),
                     Some(text)),
            IF text % 2 = 0 THEN Some(<<>>) ELSE Some(<<"n">>),
            Some(FindingTypeOf(text)), Some(text % 2), None)

\* dict.get(key, default)
Get(d, key, default) == IF key \in DOMAIN d THEN d[key] ELSE default

\* Citation.to_dict
to_dict(c) ==
    [k \in {"source_url", "title", "author", "publication_date", "accessed_date"} |->
        c[k]]

\* datetime.utcnow().isoformat() at the time of reading: no stored time
Now == Some(0)

\* Citation.from_dict
from_dict(data) ==
    Citation(Get(data, "source_url", Some(<<>>)), Get(data, "title", Some(<<>>)),
             Get(data, "author", None), Get(data, "publication_date", None),
             Get(data, "accessed_date", Now))

\* Finding.to_storage_dict
to_storage_dict(f) ==
    [k \in DOMAIN to_dict(f.citation)
              \cup {"relevance_notes", "finding_type", "confidence"} |->
        IF k \in DOMAIN to_dict(f.citation) THEN to_dict(f.citation)[k] ELSE f[k]]

\* a from_storage that reads nothing from the metadata
from_storage_defaults(text, metadata, doc_id) ==
    Finding(text, from_dict(<<>>), Some(<<>>), Some("paraphrase"), Some(1), doc_id)

\* Finding.from_storage
from_storage(text, metadata, doc_id) ==
    Finding(text, from_dict(metadata), Get(metadata, "relevance_notes", Some(<<>>)),
            Get(metadata, "finding_type", Some("paraphrase")),
            Get(metadata, "confidence", Some(1)), doc_id)

\* json.dumps of a dict of strings, numbers and None: an object whose members are
\* the literal null or the literal of the value
JsonDumps(d) ==
    [k \in DOMAIN d |->
        IF d[k].some THEN [json |-> "literal", of |-> d[k].text]
        ELSE [json |-> "null", of |-> <<>>]]

\* json.loads of such an object
JsonLoads(o) ==
    [k \in DOMAIN o |-> IF o[k].json = "null" THEN None ELSE Some(o[k].of)]

\* the metadata column of the row with the text `text`: store_finding writes
\* json.dumps(finding.to_storage_dict()) with the row
MetadataColumn(text) == JsonDumps(to_storage_dict(FindingOf(text)))

\* `json.loads(row[2]) if row[2] else {}` of get_all and search, then `metadata or {}`
LoadMetadata(column) ==
    LET metadata == IF DOMAIN column # {} THEN JsonLoads(column) ELSE <<>>
    IN IF DOMAIN metadata # {} THEN metadata ELSE <<>>

\* MemoryTool.get_all_findings
GetAllFindings(c) ==
    IF Count(c) = 0 THEN <<>>
    ELSE LET embeddings == GetAll(c, 0, Count(c)).results
         IN [i \in 1..Len(embeddings) |->
                from_storage(embeddings[i].text,
                             LoadMetadata(MetadataColumn(embeddings[i].text)),
                             Some(embeddings[i].doc_id))]

\* the source_url values of the metadata of the rows of the table
TableUrls(c) == {SourceUrl(r.text) : r \in c.rows}

\* Collection(name, dimension, path) on a directory that holds the store of c: the
\* table as committed, the index as load_index reads it from the file, or a new
\* index when there is no file
Reopen(c) ==
    IF c.file.exists
    THEN [c EXCEPT !.items = c.file.items, !.max_elements = c.file.max_elements]
    ELSE [c EXCEPT !.items = FreshIndex.items, !.max_elements = FreshIndex.max_elements]

\* the process stops inside add, after conn.commit() and before save_index has
\* written the file (before or after add_items: the index in memory is lost), and
\* a new process opens the collection from its two files
StopInAdd ==
    /\ clock < MaxAdds
    /\ \E doc_id \in DocIds, vector \in Vecs :
          LET emb == Embedding(vector, clock + 1, doc_id, clock + 1)
              row_id == NextRowId(coll.rows)
          IN /\ ~UniqueViolation(coll.rows, doc_id)
             /\ coll' = Reopen([coll EXCEPT !.rows = InsertRow(coll.rows, emb)])
             /\ usedIds' = usedIds \cup {row_id}
             /\ usedDocs' = usedDocs \cup {doc_id}
             /\ lastOp' = OpResult("reopen", FALSE, <<>>, 1, FALSE, doc_id)
    /\ clock' = clock + 1
    /\ UNCHANGED <<queueVars, loopVars, memVars, thrVars>>

\* the same inside add_batch, after the commit of the batch's rows
StopInAddBatch ==
    \E n \in 1..MaxBatch :
        /\ clock + n <= MaxAdds
        /\ \E embeddings \in Batches(n, clock) :
              LET ins == InsertAll(coll.rows, embeddings)
              IN /\ ~ins.raised
                 /\ \A i \in 1..n : embeddings[i].vector # WrongDim
                 /\ coll' = Reopen([coll EXCEPT !.rows = ins.rows])
                 /\ usedIds' = usedIds \cup {x.id : x \in ins.committed}
                 /\ usedDocs' = usedDocs \cup {x.doc_id : x \in ins.committed}
                 /\ lastOp' = OpResult("reopen", FALSE, <<>>, n, FALSE, 0)
        /\ clock' = clock + n
        /\ UNCHANGED <<queueVars, loopVars, memVars, thrVars>>

\* the collection with processes that stop inside a write
NextStop == DoAdd \/ DoAddBatch \/ DoDelete \/ DoSearch \/ StopInAdd \/ StopInAddBatch

SpecStop == Init /\ [][NextStop]_vars

\* _load_source_urls: the urls of every row get_all(limit=count) gives; an exception
\* is swallowed
LoadSourceUrls(c, urls) ==
    IF Count(c) > 0
    THEN LET all == GetAll(c, 0, Count(c))
         IN IF all.raised THEN urls
            ELSE urls \cup {SourceUrl(all.results[i].text) : i \in 1..Len(all.results)}
    ELSE urls

\* `self._source_urls.add(...)` of store_finding: reached only when add returned
TrackSourceUrl(urls, text, raised) ==
    IF raised THEN urls ELSE urls \cup {SourceUrl(text)}

\* an rstrip that removes nothing
RStripNothing(text, chars) == text

\* str.rstrip(chars): the trailing characters that are in chars are removed
RECURSIVE RStripChars(_, _)
RStripChars(text, chars) ==
    IF text # <<>> /\ text[Len(text)] \in chars
    THEN RStripChars(SubSeq(text, 1, Len(text) - 1), chars)
    ELSE text

\* the normalisation of has_source: url.rstrip("/").lower()
NormalizeUrl(url) == Lower(RStripChars(url, {"/"}))

\* MemoryTool.has_source
HasSource(urls, url) ==
    LET normalized == NormalizeUrl(url)
    IN \E existing \in urls : NormalizeUrl(existing) = normalized

StoreFaults == {"none", "embed", "insert", "save"}

\* MemoryTool.store_finding: embed, fresh doc_id, Embedding, Collection.add.
\* fault "embed": the embedder raises before anything is written
StoreFinding(c, now, text, fault) ==
    IF fault = "embed"
    THEN [coll |-> c, raised |-> TRUE, committed |-> {}, clock |-> now, doc_id |-> 0]
    ELSE LET emb == Embedding(EmbedSingle(text), text, Uuid4(now + 1), now + 1)
             r == Add(c, emb, fault)
         IN [coll |-> r.coll, raised |-> r.raised, committed |-> r.committed,
             clock |-> now + 1, doc_id |-> IF r.raised THEN 0 ELSE emb.doc_id]

\* MemoryTool.search_findings: embed the query, search the collection, make a
\* Finding of every result
SearchFindings(c, query, k) ==
    {[raised |-> r.raised,
      results |-> [i \in 1..Len(r.results) |->
                      [finding |-> from_storage(r.results[i].text,
                                                LoadMetadata(MetadataColumn(r.results[i].text)),
                                                Some(r.results[i].doc_id)),
                       distance |-> r.results[i].distance]]] :
        r \in Search(c, EmbedSingle(query), k)}

\* ------------------------------------------- MemoryTool driven by one caller
\* store_finding(finding) on the MemoryTool, by a caller that stores one finding
\* after the other
MemStore ==
    /\ clock < MaxEnq
    /\ \E fault \in StoreFaults :
          LET r == StoreFinding(coll, clock, clock + 1, fault)
          IN /\ coll' = r.coll
             /\ clock' = r.clock
             /\ usedIds' = usedIds \cup {x.id : x \in r.committed}
             /\ usedDocs' = usedDocs \cup {x.doc_id : x \in r.committed}
             /\ lastOp' = OpResult("store", r.raised, <<>>, 0, FALSE, r.doc_id)
             /\ sourceUrls' = TrackSourceUrl(sourceUrls, clock + 1, r.raised)
    /\ UNCHANGED <<hasSource, scan, queueVars, thrVars, loopVars>>

\* a new process makes a MemoryTool on the same store directory and calls
\* initialize(): a new Collection object, then _load_source_urls into an empty set
MemInitialize ==
    /\ coll' = Reopen(coll)
    /\ sourceUrls' = LoadSourceUrls(Reopen(coll), {})
    /\ lastOp' = OpResult("initialize", FALSE, <<>>, 0, FALSE, 0)
    /\ UNCHANGED <<clock, usedIds, usedDocs, hasSource, scan, queueVars, thrVars,
                   loopVars>>

\* has_source(url) on the MemoryTool
MemHasSource ==
    /\ \E i \in 1..Len(Urls) :
          hasSource' = [url |-> Urls[i], ret |-> HasSource(sourceUrls, Urls[i])]
    /\ lastOp' = OpResult("has_source", FALSE, <<>>, 0, FALSE, 0)
    /\ UNCHANGED <<coll, clock, usedIds, usedDocs, sourceUrls, scan, queueVars, thrVars,
                   loopVars>>

\* the loop's thread is in no call of the MemoryTool
IdleScan == [pc |-> "idle", url |-> <<>>, used |-> 0, left |-> {}]

\* list(a_set): the elements in the order of the set's table
RECURSIVE ListOf(_)
ListOf(S) ==
    IF S = {} THEN <<>>
    ELSE LET e == CHOOSE x \in S : TRUE IN <<e>> \o ListOf(S \ {e})

\* get_statistics() on the loop's thread while the consumer's thread stores:
\* count(), then len(self._source_urls) ...
StatsLen ==
    /\ scan.pc = "idle"
    /\ scan' = [IdleScan EXCEPT !.pc = "stats", !.used = Cardinality(sourceUrls)]
    /\ UNCHANGED <<collVars, sourceUrls, hasSource, queueVars, thrVars, loopVars>>

\* ... then list(self._source_urls), a second read of the set, and the dict
StatsList ==
    /\ scan.pc = "stats"
    /\ lastOp' = OpResult("statistics", FALSE, ListOf(sourceUrls), scan.used, FALSE, 0)
    /\ scan' = IdleScan
    /\ UNCHANGED <<coll, clock, usedIds, usedDocs, sourceUrls, hasSource, queueVars,
                   thrVars, loopVars>>

\* one step of `for existing in self._source_urls` for has_source(url): the set
\* iterator raises RuntimeError when the set's size is not the size it had when
\* the iterator was made; it ends the loop when no element is left; else it gives
\* an element, which is compared
ScanStep(urls, s) ==
    IF Cardinality(urls) # s.used
    THEN {[raised |-> TRUE, done |-> TRUE, ret |-> FALSE, scan |-> IdleScan]}
    ELSE IF s.left = {}
         THEN {[raised |-> FALSE, done |-> TRUE, ret |-> FALSE, scan |-> IdleScan]}
         ELSE {IF NormalizeUrl(existing) = NormalizeUrl(s.url)
               THEN [raised |-> FALSE, done |-> TRUE, ret |-> TRUE, scan |-> IdleScan]
               ELSE [raised |-> FALSE, done |-> FALSE, ret |-> FALSE,
                     scan |-> [s EXCEPT !.pc = "scan", !.left = s.left \ {existing}]] :
                  existing \in s.left}

\* what a step of has_source leaves behind
Scanned(url, step) ==
    /\ scan' = step.scan
    /\ IF step.done
       THEN /\ lastOp' = OpResult("has_source", step.raised, <<>>, 0, FALSE, 0)
            /\ hasSource' = IF step.raised THEN hasSource
                                           ELSE [url |-> url, ret |-> step.ret]
       ELSE UNCHANGED <<lastOp, hasSource>>
    /\ UNCHANGED <<coll, clock, usedIds, usedDocs, sourceUrls, queueVars, thrVars,
                   loopVars>>

\* has_source(url) on the loop's thread: the iterator is made and gives its first
\* element
ScanBegin ==
    /\ scan.pc = "idle"
    /\ \E i \in 1..Len(Urls) :
          \E step \in ScanStep(sourceUrls, [IdleScan EXCEPT !.url = Urls[i],
                                                           !.used = Cardinality(sourceUrls),
                                                           !.left = sourceUrls]) :
              Scanned(Urls[i], step)

\* the loop comes back to the iterator after the comparison of an element
ScanNext ==
    /\ scan.pc = "scan"
    /\ \E step \in ScanStep(sourceUrls, scan) : Scanned(scan.url, step)

\* store_finding on the consumer's thread, between any two steps of the loop's thread
NextSnap == MemStore \/ StatsLen \/ StatsList \/ ScanBegin \/ ScanNext

SpecSnap == Init /\ [][NextSnap]_vars

\* get_all_findings() on the MemoryTool
MemGetAllFindings ==
    /\ lastOp' = OpResult("get_all_findings", FALSE, GetAllFindings(coll), 0, FALSE, 0)
    /\ UNCHANGED <<coll, clock, usedIds, usedDocs, memVars, queueVars, thrVars,
                   loopVars>>

\* search_findings(query, n_results) on the MemoryTool
MemSearchFindings ==
    /\ \E query \in Vecs, k \in 1..MaxK :
          \E r \in SearchFindings(coll, query, k) :
              lastOp' = OpResult("search_findings", r.raised, r.results, k, FALSE, 0)
    /\ UNCHANGED <<coll, clock, usedIds, usedDocs, memVars, queueVars, thrVars,
                   loopVars>>

NextMem ==
    MemStore \/ MemInitialize \/ MemHasSource \/ MemGetAllFindings
        \/ MemSearchFindings

SpecMem == Init /\ [][NextMem]_vars

\* --------------------------------------- FindingQueue (tools/finding_queue.py)
Workers == 1..MaxStarts

Alive(w) == wpc[w] \in {"get", "storing", "resume"}

Processing(w) == wpc[w] \in {"storing", "resume"}

\* pending_count: self._queue.qsize(), the number of items in the queue
PendingCount(q) == Len(q)

\* asyncio.Queue.task_done: the count after it
TaskDone(n) == n - 1

\* a task_done that wakes the join() waiter at every call
WakeJoinEarly(n, woken) ==
    IF callerPc \in {"drain_join", "stop_join"} THEN TRUE ELSE woken

\* a task_done that never wakes the join() waiter
WakeJoinNever(n, woken) == woken

\* _finished.set() when the count reaches 0: it resolves the future of a join() waiter
WakeJoin(n, woken) ==
    IF n = 0 /\ callerPc \in {"drain_join", "stop_join"} THEN TRUE ELSE woken

\* a get() that takes the newest item
DequeueNewest(q) == [item |-> q[Len(q)], rest |-> SubSeq(q, 1, Len(q) - 1)]

\* get() on a non-empty asyncio.Queue: the oldest item leaves the queue
Dequeue(q) == [item |-> Head(q), rest |-> Tail(q)]

\* _worker from `task = await self._queue.get()` to its next suspension:
\* on an empty queue it waits in get(); on the None sentinel it calls task_done and
\* leaves the loop; on a task it hands the store call to a thread and awaits it
WorkerTake(q, n, woken) ==
    IF q = <<>>
    THEN [queue |-> q, unfinished |-> n, joinWoken |-> woken, pc |-> "get", cur |-> 0,
          began |-> <<>>]
    ELSE LET got == Dequeue(q)
         IN IF got.item = 0
            THEN [queue |-> got.rest, unfinished |-> TaskDone(n),
                  joinWoken |-> WakeJoin(TaskDone(n), woken), pc |-> "exited", cur |-> 0,
                  began |-> <<>>]
            ELSE [queue |-> got.rest, unfinished |-> n, joinWoken |-> woken,
                  pc |-> "storing", cur |-> got.item,
                  began |-> <<<<"begin", got.item>>>>]

\* a consumer waiting in get() is handed an item
WorkerGet(w) ==
    /\ wpc[w] = "get"
    /\ queue # <<>>
    /\ LET t == WorkerTake(queue, unfinished, joinWoken)
       IN /\ queue' = t.queue
          /\ unfinished' = t.unfinished
          /\ joinWoken' = t.joinWoken
          /\ wpc' = [wpc EXCEPT ![w] = t.pc]
          /\ wcur' = [wcur EXCEPT ![w] = t.cur]
          /\ log' = log \o t.began
    /\ UNCHANGED <<collVars, thrVars, loopVars, memVars, workerTask, nStarted, wout, stored, failed, errors,
                   callerPc, lastRet, nEnq, nStops, drained>>

\* a call of the MemoryTool (embedding inference, table and index work) ran on the
\* context `on`: "loop" is the event loop's thread, where the agent loop and the
\* consumer are scheduled, "thread" a thread of the executor
RanOn(call, on) == [call |-> call, on |-> on]

\* the consumer hands store_finding_from_dict to asyncio.to_thread
StoreContext == "thread"

\* the thread of asyncio.to_thread runs store_finding_from_dict to its end
ThreadStore(w) ==
    /\ wpc[w] = "storing"
    /\ \E fault \in StoreFaults :
          LET r == StoreFinding(coll, clock, wcur[w], fault)
          IN /\ coll' = r.coll
             /\ clock' = r.clock
             /\ usedIds' = usedIds \cup {x.id : x \in r.committed}
             /\ usedDocs' = usedDocs \cup {x.doc_id : x \in r.committed}
             /\ lastOp' = OpResult("add", r.raised, <<>>, 0, FALSE, 0)
             /\ wout' = [wout EXCEPT ![w] = IF r.raised THEN fault ELSE "ok"]
             /\ sourceUrls' = TrackSourceUrl(sourceUrls, wcur[w], r.raised)
    /\ contexts' = contexts \cup {RanOn("store", StoreContext)}
    /\ wpc' = [wpc EXCEPT ![w] = "resume"]
    /\ log' = Append(log, <<"end", wcur[w]>>)
    /\ UNCHANGED <<thrVars, tool, agent, hasSource, scan, queue, unfinished, joinWoken, workerTask, nStarted, wcur,
                   stored, failed, errors, callerPc, lastRet, nEnq, nStops, drained>>

\* a consumer that counts a failed store call nowhere
CountedLosesFailure(outcome, task, s, f, errs) ==
    IF outcome = "ok"
    THEN [stored |-> s + 1, failed |-> f, errors |-> errs, goes_on |-> TRUE]
    ELSE [stored |-> s, failed |-> f, errors |-> errs, goes_on |-> TRUE]

\* a consumer that a failed store call ends
CountedAborts(outcome, task, s, f, errs) ==
    IF outcome = "ok"
    THEN [stored |-> s + 1, failed |-> f, errors |-> errs, goes_on |-> TRUE]
    ELSE [stored |-> s, failed |-> f + 1, errors |-> Append(errs, <<task, outcome>>),
          goes_on |-> FALSE]

\* what _worker does with the outcome of the store call: the counters and the
\* error list, and whether the consumer goes on with its loop
Counted(outcome, task, s, f, errs) ==
    IF outcome = "ok"
    THEN [stored |-> s + 1, failed |-> f, errors |-> errs, goes_on |-> TRUE]
    ELSE [stored |-> s, failed |-> f + 1, errors |-> Append(errs, <<task, outcome>>),
          goes_on |-> TRUE]

\* the consumer resumes after the thread: counters, task_done, and the next get()
WorkerResume(w) ==
    /\ wpc[w] = "resume"
    /\ LET c == Counted(wout[w], wcur[w], stored, failed, errors)
           n == TaskDone(unfinished)
           t == IF c.goes_on
                THEN WorkerTake(queue, n, WakeJoin(n, joinWoken))
                ELSE [queue |-> queue, unfinished |-> n,
                      joinWoken |-> WakeJoin(n, joinWoken), pc |-> "exited", cur |-> 0,
                      began |-> <<>>]
       IN /\ stored' = c.stored
          /\ failed' = c.failed
          /\ errors' = c.errors
          /\ queue' = t.queue
          /\ unfinished' = t.unfinished
          /\ joinWoken' = t.joinWoken
          /\ wpc' = [wpc EXCEPT ![w] = t.pc]
          /\ wcur' = [wcur EXCEPT ![w] = t.cur]
          /\ log' = log \o t.began
    /\ wout' = [wout EXCEPT ![w] = "none"]
    /\ UNCHANGED <<collVars, thrVars, loopVars, memVars, workerTask, nStarted, callerPc, lastRet, nEnq, nStops,
                   drained>>

\* start(): create_task(self._worker()); the new consumer first runs get()
Spawn ==
    /\ callerPc = "idle"
    /\ nStarted < MaxStarts
    /\ nStarted' = nStarted + 1
    /\ workerTask' = nStarted + 1
    /\ wpc' = [wpc EXCEPT ![nStarted + 1] = "get"]
    /\ lastRet' = "start"
    /\ UNCHANGED <<collVars, thrVars, loopVars, memVars, queue, unfinished, joinWoken, wcur, wout, stored, failed,
                   errors, callerPc, nEnq, nStops, drained, log>>

\* start() as agent/loop.py calls it: no consumer of this queue is alive
Start ==
    /\ \A w \in Workers : ~Alive(w)
    /\ Spawn

\* start() while a consumer started earlier is alive
StartAgain ==
    /\ \E w \in Workers : Alive(w)
    /\ Spawn

\* enqueue(task): put_nowait
Enqueue ==
    /\ callerPc = "idle"
    /\ nEnq < MaxEnq
    /\ nEnq' = nEnq + 1
    /\ queue' = Append(queue, nEnq + 1)
    /\ unfinished' = unfinished + 1
    /\ lastRet' = "enqueue"
    /\ UNCHANGED <<collVars, thrVars, loopVars, memVars, joinWoken, workerTask, nStarted, wpc, wcur, wout, stored,
                   failed, errors, callerPc, nStops, drained, log>>

\* drain(): queue.join() returns at once when nothing is unfinished, else it waits
Drain ==
    /\ callerPc = "idle"
    /\ IF unfinished > 0
       THEN /\ callerPc' = "drain_join"
            /\ lastRet' = "pending"
            /\ drained' = drained
       ELSE /\ callerPc' = "idle"
            /\ lastRet' = "drain"
            /\ drained' = "at_once"
    /\ joinWoken' = FALSE
    /\ UNCHANGED <<collVars, thrVars, loopVars, memVars, queue, unfinished, workerTask, nStarted, wpc, wcur, wout,
                   stored, failed, errors, nEnq, nStops, log>>

\* the caller of drain() resumes once _finished.set() resolved its future
DrainReturn ==
    /\ callerPc = "drain_join"
    /\ joinWoken
    /\ callerPc' = "idle"
    /\ lastRet' = "drain"
    /\ drained' = "waited"
    /\ joinWoken' = FALSE
    /\ UNCHANGED <<collVars, thrVars, loopVars, memVars, queue, unfinished, workerTask, nStarted, wpc, wcur, wout,
                   stored, failed, errors, nEnq, nStops, log>>

\* a stop() that does not await the consumer task
StopWaitsNever(task, pcs) == FALSE

\* stop() after its drain(): whether it waits for the consumer before it returns
StopWaits(task, pcs) == task # 0 /\ pcs[task] # "exited"

\* stop() after its drain(): put(None), then `await self._worker_task` when there
\* is one that has not finished
StopSignal ==
    /\ queue' = Append(queue, 0)
    /\ unfinished' = unfinished + 1
    /\ joinWoken' = FALSE
    /\ IF StopWaits(workerTask, wpc)
       THEN /\ callerPc' = "stop_wait"
            /\ lastRet' = "pending"
       ELSE /\ callerPc' = "idle"
            /\ lastRet' = "stop"

\* stop(): drain() first; with nothing unfinished it goes on without suspending
Stop ==
    /\ callerPc = "idle"
    /\ nStops < MaxStops
    /\ nStops' = nStops + 1
    /\ IF unfinished > 0
       THEN /\ callerPc' = "stop_join"
            /\ lastRet' = "pending"
            /\ joinWoken' = FALSE
            /\ UNCHANGED <<queue, unfinished>>
       ELSE StopSignal
    /\ UNCHANGED <<collVars, thrVars, loopVars, memVars, workerTask, nStarted, wpc, wcur, wout, stored, failed,
                   errors, nEnq, drained, log>>

\* stop() resumes from its drain()
StopDrained ==
    /\ callerPc = "stop_join"
    /\ joinWoken
    /\ StopSignal
    /\ UNCHANGED <<collVars, thrVars, loopVars, memVars, workerTask, nStarted, wpc, wcur, wout, stored, failed,
                   errors, nEnq, nStops, drained, log>>

\* stop() returns once the consumer task it awaits has finished
StopReturn ==
    /\ callerPc = "stop_wait"
    /\ wpc[workerTask] = "exited"
    /\ callerPc' = "idle"
    /\ lastRet' = "stop"
    /\ UNCHANGED <<collVars, thrVars, loopVars, memVars, queue, unfinished, joinWoken, workerTask, nStarted, wpc,
                   wcur, wout, stored, failed, errors, nEnq, nStops, drained, log>>

WorkerNext == \E w \in Workers : WorkerGet(w) \/ ThreadStore(w) \/ WorkerResume(w)

CallerNext == Start \/ Enqueue \/ Drain \/ DrainReturn \/ Stop \/ StopDrained \/ StopReturn

Next == CallerNext \/ WorkerNext

Spec == Init /\ [][Next]_vars

NextApi == Next \/ StartAgain

\* enqueue(task) by another coroutine of the event loop while the caller of stop()
\* is suspended, in its drain() or in `await self._worker_task`: put_nowait does
\* not wait and does not look at the termination signal
EnqueueDuringStop ==
    /\ callerPc \in {"stop_join", "stop_wait"}
    /\ nEnq < MaxEnq
    /\ nEnq' = nEnq + 1
    /\ queue' = Append(queue, nEnq + 1)
    /\ unfinished' = unfinished + 1
    /\ UNCHANGED <<collVars, thrVars, loopVars, memVars, joinWoken, workerTask, nStarted,
                   wpc, wcur, wout, stored, failed, errors, callerPc, lastRet, nStops,
                   drained, log>>

\* the queue with coroutines that enqueue while another one stops it
NextRace == Next \/ EnqueueDuringStop

SpecRace == Init /\ [][NextRace]_vars

\* -------------------------------------------------------------- AgentLoop.run
\* run() is in its while loop, between two turns
InLoop == agent.pc = "loop" /\ nStarted > 0 /\ callerPc = "idle"

\* `await self._finding_queue.start()`, the first statement of run()
RunStart ==
    /\ agent.pc = "loop" /\ nStarted = 0
    /\ Start

\* request_shutdown(), called by the SIGINT handler at any time during the run
RequestShutdown ==
    /\ agent.pc \in {"loop", "tools", "drain"}
    /\ ~agent.shutdown
    /\ agent' = [agent EXCEPT !.shutdown = TRUE]
    /\ UNCHANGED <<collVars, queueVars, thrVars, memVars, tool, contexts>>

\* what self._client.messages.create(...) gives to one turn: an exception of the
\* API client, a text with the completion marker, tool calls, or a plain end of turn
Responses == {"raises", "complete", "tool_use", "end_turn"}

\* one pass of `while self._turn_count < max_turns` up to the tool calls: the
\* shutdown check, the count, the model call and what run() does with the response
Turn(a, response, n) ==
    IF a.turns >= MaxTurns THEN [a EXCEPT !.pc = "drain", !.left = "max_turns"]
    ELSE IF a.shutdown THEN [a EXCEPT !.pc = "drain", !.left = "shutdown"]
    ELSE LET b == [a EXCEPT !.turns = a.turns + 1]
         IN CASE response = "raises" -> [b EXCEPT !.pc = "left", !.left = "exception"]
              [] response = "complete" -> [b EXCEPT !.pc = "drain", !.left = "complete"]
              [] response = "tool_use" -> [b EXCEPT !.pc = "tools", !.calls = n]
              [] OTHER -> b

RunTurn ==
    /\ InLoop
    /\ \E response \in Responses, n \in 0..MaxToolCalls :
          agent' = Turn(agent, response, n)
    /\ UNCHANGED <<collVars, queueVars, thrVars, memVars, tool, contexts>>

\* one store_finding tool call of the turn's asyncio.gather: it enqueues its task
\* or returns an error
RunToolCall ==
    /\ agent.pc = "tools" /\ agent.calls > 0
    /\ agent' = [agent EXCEPT !.calls = agent.calls - 1]
    /\ \/ /\ nEnq < MaxEnq
          /\ nEnq' = nEnq + 1
          /\ queue' = Append(queue, nEnq + 1)
          /\ unfinished' = unfinished + 1
          /\ lastRet' = "enqueue"
       \/ UNCHANGED <<nEnq, queue, unfinished, lastRet>>
    /\ UNCHANGED <<collVars, thrVars, memVars, tool, contexts, joinWoken, workerTask,
                   nStarted, wpc, wcur, wout, stored, failed, errors, callerPc, nStops,
                   drained, log>>

\* asyncio.gather has returned: the tool results go into the messages
RunToolsDone ==
    /\ agent.pc = "tools" /\ agent.calls = 0
    /\ agent' = [agent EXCEPT !.pc = "loop"]
    /\ UNCHANGED <<collVars, queueVars, thrVars, memVars, tool, contexts>>

\* _drain_queue(): `await self._finding_queue.stop()`
RunDrain ==
    /\ agent.pc = "drain" /\ nStops = 0
    /\ Stop

\* run() returns after _drain_queue()
RunReturn ==
    /\ agent.pc = "drain" /\ nStops > 0 /\ callerPc = "idle"
    /\ agent' = [agent EXCEPT !.pc = "left"]
    /\ UNCHANGED <<collVars, queueVars, thrVars, memVars, tool, contexts>>

NextRun ==
    \/ RunStart \/ RequestShutdown \/ RunTurn \/ RunToolCall \/ RunToolsDone
    \/ RunDrain \/ StopDrained \/ StopReturn \/ RunReturn \/ WorkerNext

SpecRun == Init /\ [][NextRun]_vars

\* _execute_tool calls self._memory.search_findings(...) as a plain call
SearchContext == "loop"

\* the search_findings tool call of the agent loop; an exception becomes the
\* returned error
ExecuteSearchFindings ==
    /\ callerPc = "idle"
    /\ \E query \in Vecs, k \in 1..MaxK :
          \E r \in SearchFindings(coll, query, k) :
              lastOp' = OpResult("search", r.raised, r.results, k, FALSE, 0)
    /\ contexts' = contexts \cup {RanOn("search", SearchContext)}
    /\ UNCHANGED <<coll, clock, usedIds, usedDocs, queueVars, thrVars, memVars, tool,
                   agent>>

\* the agent loop with its tool calls and the consumer of its queue
NextTools == Next \/ ExecuteSearchFindings

SpecTools == Init /\ [][NextTools]_vars

SpecApi == Init /\ [][NextApi]_vars

\* the event loop runs every coroutine that can run, and every store call ends
Fairness ==
    /\ \A w \in Workers :
          WF_vars(WorkerGet(w)) /\ WF_vars(ThreadStore(w)) /\ WF_vars(WorkerResume(w))
    /\ WF_vars(DrainReturn) /\ WF_vars(StopDrained) /\ WF_vars(StopReturn)

FairSpec == Spec /\ Fairness

\* ================================================================== claims
Orphans(c) == Labels(c.items) \ {r.id : r \in c.rows}

NewRows == coll'.rows \ coll.rows

Ended(i) == \E j \in 1..Len(log) : log[j] = <<"end", i>>

\* task i waits in the queue with no termination signal ahead of it
QueuedBeforeSentinel(i) ==
    \E j \in 1..Len(queue) : queue[j] = i /\ \A m \in 1..(j - 1) : queue[m] # 0

\* C1: after any sequence of add, add_batch, delete and clear calls, failed ones
\* included, every metadata row has a vector under its row id in the index.
C1_EveryRowHasVector == \A r \in coll.rows : r.id \in Labels(coll.items)

\* C2: the consumer processes tasks in enqueue order and one at a time: the j-th
\* store call is the one of task j and it ends before the next begins, and of two
\* stored tasks the one enqueued first has the smaller row id and created_at.
C2_FifoOneAtATime ==
    /\ \A i \in 1..Len(log) :
          log[i] = <<IF i % 2 = 1 THEN "begin" ELSE "end", (i + 1) \div 2>>
    /\ \A a, b \in coll.rows :
          a.text < b.text => a.id < b.id /\ a.created_at < b.created_at

C2_Witness == Len(log) >= 4 /\ Cardinality(coll.rows) >= 2

\* C3: when stop() has returned after N enqueue calls, stored + failed = N.
C3_StopCountsAll == lastRet = "stop" => stored + failed = nEnq

C3_Witness == lastRet = "stop" /\ nEnq >= 2 /\ stored >= 1 /\ failed >= 1

\* C4 as stated: in every reachable state of the collection, search with k above
\* count() returns exactly count() results and does not raise.
C4_SearchReturnsCount ==
    (lastOp.op = "search" /\ lastOp.k > Count(coll))
        => ~lastOp.raised /\ Len(lastOp.results) = Count(coll)

\* C4 amended: search with k above count() returns at most count() results, exactly
\* count() when the index holds no orphan, and the empty list on an empty
\* collection; it raises exactly when the index holds fewer vectors than the
\* table has rows.
C4_SearchAtMostCount ==
    (lastOp.op = "search" /\ lastOp.k > Count(coll))
        => /\ Count(coll) = 0 => ~lastOp.raised /\ lastOp.results = <<>>
           /\ lastOp.raised <=> Cardinality(Labels(coll.items)) < Count(coll)
           /\ ~lastOp.raised => Len(lastOp.results) <= Count(coll)
           /\ (~lastOp.raised /\ Orphans(coll) = {}) => Len(lastOp.results) = Count(coll)

\* a search that found fewer records than count() although every row has its vector
C4_Witness ==
    /\ lastOp.op = "search" /\ lastOp.k > Count(coll) /\ ~lastOp.raised
    /\ Len(lastOp.results) < Count(coll)
    /\ \A r \in coll.rows : r.id \in Labels(coll.items)

\* C5: a row id given to a record is never given to another record later, also
\* after the first record was deleted.
C5_RowIdNeverReused == [][\A r \in NewRows : r.id \notin usedIds]_vars

\* C6: no two metadata rows share a doc_id, and add and add_batch never accept a
\* doc_id an earlier record of the collection carried, deleted ones included.
C6_DocIdNeverReused ==
    [][/\ \A r \in NewRows : r.doc_id \notin usedDocs
       /\ \A a, b \in coll'.rows : a.doc_id = b.doc_id => a = b]_vars

\* C7: a failed store call is caught in the consumer: failed grows by one and one
\* message joins errors (errors has failed entries), the consumer leaves its loop
\* only on the termination signal, and a task waiting behind the failure with no
\* termination signal ahead of it is still processed.
C7_FailureStep(w) ==
    (wpc[w] = "resume" /\ wpc'[w] # "resume" /\ wout[w] # "ok")
        => /\ failed' = failed + 1
           /\ stored' = stored
           /\ errors' = Append(errors, <<wcur[w], wout[w]>>)
           /\ wpc'[w] = "exited" => (queue # <<>> /\ Head(queue) = 0 /\ queue' = Tail(queue))

C7_FailureContained ==
    /\ [](Len(errors) = failed)
    /\ [][\A w \in Workers : C7_FailureStep(w)]_vars
    /\ \A i \in 1..MaxEnq :
          (failed >= 1 /\ (\E w \in Workers : Alive(w)) /\ QueuedBeforeSentinel(i))
              ~> Ended(i)

\* a task enqueued behind a failed one has been stored
C7_Witness ==
    /\ errors # <<>>
    /\ \E r \in coll.rows : r.text > errors[1][1] /\ Ended(r.text)
    /\ stored >= 1

\* C8: after any sequence of start, enqueue, drain and stop calls at most one
\* consumer is running and no two tasks are processed at the same time.
C8_OneConsumer ==
    /\ Cardinality({w \in Workers : Alive(w)}) <= 1
    /\ Cardinality({w \in Workers : Processing(w)}) <= 1

\* C9: drain() returns only when the queue is empty and every task enqueued so far
\* is counted, none being processed; no step of drain() touches the consumer or the
\* queue; a task waiting in the queue once a drain() has returned (it was enqueued
\* after that return, every earlier one being counted), with a consumer alive and
\* no termination signal ahead of it, is still processed.
C9_DrainStep ==
    \/ callerPc = "idle" /\ callerPc' = "drain_join"
    \/ lastRet' = "drain" /\ (callerPc = "drain_join" \/ lastRet # "drain")

C9_DrainWaitsAndKeepsConsumer ==
    /\ [](lastRet = "drain"
            => queue = <<>> /\ unfinished = 0 /\ stored + failed = nEnq
               /\ \A w \in Workers : ~Processing(w))
    /\ [][C9_DrainStep => wpc' = wpc /\ queue' = queue]_vars
    /\ \A i \in 1..MaxEnq :
          (drained # "no" /\ (\E w \in Workers : Alive(w)) /\ QueuedBeforeSentinel(i))
              ~> Ended(i)

\* the last call that returned is the enqueue of the newest task, a drain() that had
\* to wait returned before it, and the consumer has processed that task
C9_Witness ==
    /\ drained = "waited" /\ lastRet = "enqueue"
    /\ nEnq >= 2 /\ Ended(nEnq)
    /\ \E w \in Workers : Alive(w)

\* C10: stop() puts the termination signal only when every task enqueued so far,
\* so every task enqueued before the call, is counted; no task is enqueued between
\* the call and the signal; and when stop() has returned no consumer is alive.
C10_SignalPut == Len(queue') = Len(queue) + 1 /\ queue'[Len(queue')] = 0

C10_StopDrainsSignalsWaits ==
    /\ [](lastRet = "stop" => \A w \in Workers : ~Alive(w))
    /\ [][C10_SignalPut
            => /\ stored + failed = nEnq /\ nEnq' = nEnq
               /\ \A w \in Workers : ~Processing(w)
               /\ \A j \in 1..Len(queue) : queue[j] = 0]_vars

\* stop() has returned after a consumer processed two tasks and left
C10_Witness == lastRet = "stop" /\ workerTask # 0 /\ stored + failed >= 2

\* C11: delete(doc_id) on a doc_id the table holds returns true, count() falls by
\* one and get_all no longer lists the record; delete(doc_id) on a doc_id the table
\* does not hold, as a second call on the same doc_id is, returns false and changes
\* nothing.
C11_DeleteIdempotent ==
    [][lastOp'.op = "delete"
        => LET d == lastOp'.doc_id
               was == \E r \in coll.rows : r.doc_id = d
               listed == GetAll(coll', 0, Count(coll')).results
           IN /\ lastOp'.deleted <=> was
              /\ ~lastOp'.raised
              /\ was => Count(coll') = Count(coll) - 1
              /\ \A i \in 1..Len(listed) : listed[i].doc_id # d
              /\ ~was => coll' = coll
              /\ (lastOp.op = "delete" /\ lastOp.doc_id = d)
                    => ~lastOp'.deleted /\ coll' = coll]_vars

\* delete(d) has returned false on a record that one add stored and an earlier
\* delete(d) removed: its vector is still in the index, so no clear removed it
C11_Witness ==
    /\ lastOp.op = "delete" /\ ~lastOp.deleted
    /\ clock = 1 /\ usedDocs = {lastOp.doc_id}
    /\ coll.rows = {} /\ Orphans(coll) # {}

\* what a caller can observe of a collection: count(), get_all, every search, the
\* capacity of the index and the row id the next INSERT is given
Observables(c) ==
    [count |-> Count(c),
     all |-> GetAll(c, 0, MaxAdds + 1).results,
     search |-> [q \in Vecs, k \in 1..MaxK |-> Search(c, q, k)],
     capacity |-> c.max_elements,
     next_id |-> NextRowId(c.rows)]

\* C12: when clear() has returned, count() is 0, the index in memory and the index
\* file hold no vector, and the table, the index and its capacity are those of a
\* newly created collection, so that every operation applied from here on gives
\* what it gives on a new collection (the calls read nothing else).
C12_ClearIsFresh ==
    (lastOp.op = "clear" /\ ~lastOp.raised)
        => /\ Count(coll) = 0
           /\ Labels(coll.items) = {} /\ Orphans(coll) = {}
           /\ coll.file.exists /\ Labels(coll.file.items) = {}
           /\ coll.file.max_elements = NewCollection.max_elements
           /\ [coll EXCEPT !.file = NewCollection.file] = NewCollection
           /\ Observables(coll) = Observables(NewCollection)
           /\ \A d \in DocIds, v \in Vecs :
                 LET emb == Embedding(v, clock + 1, d, clock + 1)
                 IN Observables(Add(coll, emb, "none").coll)
                       = Observables(Add(NewCollection, emb, "none").coll)

\* clear() has returned on a collection that had been given two rows
C12_Witness ==
    /\ lastOp.op = "clear" /\ ~lastOp.raised
    /\ clock >= 2 /\ Cardinality(usedDocs) >= 2

\* C13: no two of add, add_batch, delete and clear are inside their critical sections
\* (from the entry of `with self._lock:` to its exit, save_index included) at the
\* same time; the thread inside is the one that holds the lock, and the lock is
\* free again whenever a call has left, also when it left by an exception.
C13_MutationsSerialized ==
    /\ \A t, u \in Threads :
          (InCritical(t) /\ InCritical(u)
             /\ thr[t].op \in Mutations /\ thr[u].op \in Mutations) => t = u
    /\ \A t \in Threads : InCritical(t) <=> lock = t
    /\ (\A t \in Threads : thr[t].pc = "idle") => lock = "free"

\* the worker thread is saving the index inside add while a mutation of the caller
\* waits for the lock
C13_Witness ==
    /\ thr["worker"].op = "add" /\ thr["worker"].pc = "save"
    /\ thr["caller"].op \in Mutations /\ thr["caller"].pc = "lock"

\* rows and index as they will be when the mutation that thread u is inside has
\* left its critical section
Finish(u) ==
    LET me == thr[u]
        ins == InsertAll(coll.rows, me.embs)
        ids == IF me.pc = "commit" THEN ins.row_ids ELSE me.row_ids
        cap == ResizeIndexIfNeeded(coll.max_elements, SetMax({ids[i] : i \in 1..Len(ids)}))
        vectors == [i \in 1..Len(me.embs) |-> me.embs[i].vector]
    IN CASE me.pc = "save" -> View(coll)
         [] me.op = "clear" -> [rows |-> {}, items |-> FreshIndex.items]
         [] me.op = "delete" -> View(Delete(coll, me.doc_id).coll)
         [] me.pc = "commit" /\ ins.raised -> View(coll)
         [] me.pc = "commit" /\ ~ins.raised ->
               [rows |-> ins.rows, items |-> AddItems(coll.items, cap, ids, vectors).items]
         [] OTHER ->
               [rows |-> coll.rows, items |-> AddItems(coll.items, cap, ids, vectors).items]

\* the states a search of thread t may report: every state of the collection
\* between two mutations that it overlapped, from the one at its call to the one
\* the mutation in progress at its return leads to
Overlapped(t) ==
    thr[t].cands
        \cup {Finish(u) : u \in {x \in Threads : InCritical(x) /\ thr[x].op \in Mutations}}

\* C14: every search returns without raising, and what it returns is what search
\* gives, for its query and its k, on the state of the collection before or on the
\* state after a mutation that it overlapped.
C14_SearchSeesBeforeOrAfter ==
    [][\A t \in Threads :
          (Searching(t) /\ thr'[t].pc = "idle")
              => /\ thr[t].pc # "knn"
                 /\ \E c \in Overlapped(t) :
                       \E r \in Search(c, thr[t].q, thr[t].k) :
                           /\ ~r.raised
                           /\ r.results = IF thr[t].pc = "count" THEN <<>>
                                          ELSE thr[t].results]_vars

\* the loop's store_finding call has returned
Returned == tool.ret.status # "none"

\* the call put a StorageTask on the queue
Enqueued == tool.task # NoTask /\ queue = <<1>> /\ nEnq = 1 /\ unfinished = 1

\* the call left the queue as it was
NothingEnqueued == tool.task = NoTask /\ queue = <<>> /\ nEnq = 0 /\ unfinished = 0

\* C15: a direct quote is enqueued only when its validation was valid; when it was
\* not, nothing is enqueued and the call returns an error result that carries the
\* validation's message and recommends paraphrase or summary; a finding of another
\* type is enqueued as given, without a validation.
C15_QuoteGate ==
    Returned =>
        IF tool.finding_type = "direct_quote"
        THEN /\ tool.validation.phase # "none"
             /\ Enqueued <=> tool.validation.valid
             /\ NothingEnqueued <=> ~tool.validation.valid
             /\ tool.validation.valid => tool.ret.status = "queued"
             /\ ~tool.validation.valid =>
                   /\ tool.ret.status = "error"
                   /\ tool.ret.error = tool.validation.error
                   /\ tool.ret.error # "None"
                   /\ tool.ret.finding_type = "direct_quote"
                   /\ tool.ret.suggestion =
                         "Use 'paraphrase' or 'summary' instead, or copy the exact text from the source."
        ELSE /\ tool.validation = NoValidation
             /\ Enqueued
             /\ tool.task = StorageTask(Some(tool.text), tool.finding_type)
             /\ tool.ret.status = "queued"

\* a direct quote close to the page but not close enough was rejected
C15_Witness ==
    /\ Returned
    /\ tool.finding_type = "direct_quote"
    /\ tool.validation.phase = "fuzzy"
    /\ ~tool.validation.valid
    /\ RatioGT(tool.validation.match_ratio, Ratio(1, 2))
    /\ NothingEnqueued

\* text a is a run of consecutive characters of text b
OccursIn(a, b) == \E i \in 0..(Len(b) - Len(a)) : SubSeq(b, i + 1, i + Len(a)) = a

\* the call validated a direct quote against a page that was fetched, and the
\* normalized quote occurs in the normalized page text
QuoteOccurs ==
    /\ Returned
    /\ tool.finding_type = "direct_quote"
    /\ tool.page.ok
    /\ OccursIn(normalize_text(tool.text), normalize_text(tool.page.text))

\* the exact phase accepted the quote and the fuzzy phase was not run
ExactAccepted ==
    /\ tool.validation.valid
    /\ tool.validation.match_ratio = Ratio(1, 1)
    /\ tool.validation.phase = "exact"

\* C16 as stated: whenever the normalized quote is a substring of the normalized
\* source, the result is valid with ratio 1.0 and the fuzzy phase is not run.
C16_ExactWheneverSubstring == QuoteOccurs => ExactAccepted

\* C16, amended: the same for a quote that is not empty after normalization and a
\* source of at least MinReadable characters after stripping.
C16_ExactWhenReadableAndNonEmpty ==
    (/\ QuoteOccurs
     /\ normalize_text(tool.text) # <<>>
     /\ Len(Strip(tool.page.text)) >= MinReadable)
        => ExactAccepted

\* a quote of two words, written with other case or spacing than the page, was
\* accepted by the exact phase
C16_Witness ==
    /\ QuoteOccurs
    /\ ExactAccepted
    /\ Len(Split(tool.text)) = 2
    /\ tool.text # normalize_text(tool.text)
    /\ Len(Strip(tool.page.text)) >= MinReadable

\* the page text with its whitespace runs collapsed, letter case kept
SourceSpans == Join(Split(tool.page.text))

\* C17: when the exact phase accepts a quote that occurs in the source up to letter
\* case and whitespace, the matched text is text of the source in the source's
\* casing, and that text is what the loop puts in the StorageTask.
C17_MatchedTextFromSource ==
    (QuoteOccurs /\ ExactAccepted)
        => /\ tool.validation.matched_text.some
           /\ OccursIn(tool.validation.matched_text.text, SourceSpans)
           /\ tool.task = StorageTask(tool.validation.matched_text, "direct_quote")

\* the call validated a direct quote and the validation went on to the fuzzy phase
FuzzyRan ==
    Returned /\ tool.finding_type = "direct_quote" /\ tool.validation.phase = "fuzzy"

\* every window <<i, size>> of source words of the sizes the fuzzy phase is to try
FuzzyWindows ==
    LET n == Len(Split(normalize_text(tool.text)))
        words == Len(Split(tool.page.text))
    IN {w \in (0..words) \X (Maximum(1, n - 5)..(n + 5)) : w[1] + w[2] <= words}

\* the source span of window w, in the source's casing
WindowText(w) == Join(Slice(Split(tool.page.text), w[1], w[1] + w[2]))

\* the similarity of the normalized quote and the lower-cased window w
WindowRatio(w) == FuzzRatio(normalize_text(tool.text), Lower(WindowText(w)))

Rejected == Returned /\ tool.finding_type = "direct_quote" /\ ~tool.validation.valid

\* ratio is the best ratio of the quote against the windows of the page (0 when
\* the page has no window)
IsBestRatio(ratio) ==
    /\ \A w \in FuzzyWindows : RatioGE(ratio, WindowRatio(w))
    /\ \/ \E w \in FuzzyWindows : RatioEq(ratio, WindowRatio(w))
       \/ FuzzyWindows = {} /\ RatioEq(ratio, Ratio(0, 1))

C20_SeenSourcesMatchTable ==
    lastOp.op \in {"store", "initialize"} => sourceUrls = TableUrls(coll)


\* two urls are the same source: equal once trailing slashes are dropped and letter
\* case is ignored
SameLetter(c, d) ==
    c = d \/ {c, d} \in {{"s", "S"}, {"b", "B"}}

Stem(url) ==
    LET n == CHOOSE n \in 0..Len(url) :
                 /\ \A i \in (n + 1)..Len(url) : url[i] = "/"
                 /\ n > 0 => url[n] # "/"
    IN SubSeq(url, 1, n)

SameSource(a, b) ==
    /\ Len(Stem(a)) = Len(Stem(b))
    /\ \A i \in 1..Len(Stem(a)) : SameLetter(Stem(a)[i], Stem(b)[i])

\* C21: has_source(url) returns true exactly when some seen url equals url up to
\* letter case and trailing slashes, and it leaves the seen-sources set as it was
C21_HasSource ==
    [][lastOp'.op = "has_source"
          => /\ hasSource'.ret <=> \E e \in sourceUrls : SameSource(e, hasSource'.url)
             /\ sourceUrls' = sourceUrls]_vars

\* has_source found a url that is in the set only up to case and trailing slashes
C21_Witness ==
    /\ lastOp.op = "has_source"
    /\ hasSource.ret
    /\ hasSource.url \notin sourceUrls
    /\ \E e \in sourceUrls : Len(e) # Len(hasSource.url)


\* C22: a search that returns gives at most k results, nearest first, each the record
\* of a metadata row that exists; a label whose row was deleted is left out, and a
\* search raises only when the index holds fewer vectors than it was asked for,
\* which deleted rows never cause
C22_SearchSkipsDeleted ==
    lastOp.op = "search"
        => /\ ~lastOp.raised
                => /\ Len(lastOp.results) <= lastOp.k
                   /\ \A i \in 1..(Len(lastOp.results) - 1) :
                          lastOp.results[i].distance <= lastOp.results[i + 1].distance
                   /\ \A i \in 1..Len(lastOp.results) :
                          \E r \in coll.rows :
                              /\ r.doc_id = lastOp.results[i].doc_id
                              /\ r.text = lastOp.results[i].text
                              /\ r.created_at = lastOp.results[i].created_at
           /\ lastOp.raised => \E r \in coll.rows : r.id \notin Labels(coll.items)

\* a search met the label of a deleted row and left it out
C22_Witness ==
    /\ lastOp.op = "search"
    /\ ~lastOp.raised
    /\ Orphans(coll) # {}
    /\ lastOp.k <= Count(coll)
    /\ Len(lastOp.results) < lastOp.k


\* C23: delete removes the metadata row and nothing else (the index in memory, the
\* index file and the other rows stay as they were), and no call but clear takes a
\* vector out of the index: every vector stays under its label
C23_OnlyClearRemovesVectors ==
    [][/\ lastOp'.op = "delete"
            => /\ coll'.items = coll.items
               /\ coll'.max_elements = coll.max_elements
               /\ coll'.file = coll.file
               /\ coll'.rows = {r \in coll.rows : r.doc_id # lastOp'.doc_id}
       /\ lastOp'.op # "clear"
            => \A l \in Labels(coll.items) :
                   l \in Labels(coll'.items) /\ coll'.items[l] = coll.items[l]]_vars

\* C23, the part on delete alone: the row goes, its vector stays as an orphan
C23_DeleteLeavesIndex ==
    [][lastOp'.op = "delete"
            => /\ coll'.items = coll.items
               /\ coll'.max_elements = coll.max_elements
               /\ coll'.file = coll.file
               /\ coll'.rows = {r \in coll.rows : r.doc_id # lastOp'.doc_id}]_vars


\* the rows a get_all is to give: the rows of the table by row id, without the first
\* `offset` ones, `limit` of them at most, all of them when no limit is given
RowsFrom(rows, offset, limit) ==
    LET ids == {r.id : r \in rows}
        rank(r) == Cardinality({i \in ids : i < r.id})
    IN {r \in rows : rank(r) >= offset /\ (limit # 0 => rank(r) < offset + limit)}

Listed(results, rows) ==
    /\ Len(results) = Cardinality(rows)
    /\ \A r \in rows :
          \E i \in 1..Len(results) :
              /\ i = Cardinality({o \in rows : o.id <= r.id})
              /\ results[i].doc_id = r.doc_id
              /\ results[i].text = r.text
              /\ results[i].created_at = r.created_at
              /\ results[i].vector = <<>>

\* C24: get_all(offset, limit) gives the rows by row id from the offset on, at most
\* limit of them, without vectors; with no limit it gives every row from the offset
\* on and never fails
C24_GetAll ==
    lastOp.op = "get_all"
        => /\ ~lastOp.raised
           /\ Listed(lastOp.results, RowsFrom(coll.rows, lastOp.offset, lastOp.k))

\* C24, the part on a call with a limit of one or more
C24_GetAllWithLimit ==
    (lastOp.op = "get_all" /\ lastOp.k > 0)
        => /\ ~lastOp.raised
           /\ Listed(lastOp.results, RowsFrom(coll.rows, lastOp.offset, lastOp.k))

\* get_all gave the second of two rows
C24_PageWitness ==
    /\ lastOp.op = "get_all"
    /\ lastOp.offset = 1
    /\ Len(lastOp.results) = 1
    /\ Count(coll) = 2


\* C25: an add that returns raises count() by exactly one; a delete lowers it by
\* one when it removed a row and leaves it otherwise, clear makes it 0 and get_all
\* leaves it; count() is the number of rows the table lists, whatever the number of
\* vectors in the index
C25_CountFollowsRows ==
    [][/\ (lastOp'.op = "add" /\ ~lastOp'.raised) => Count(coll') = Count(coll) + 1
       /\ lastOp'.op = "delete"
            => Count(coll') = Count(coll) - (IF lastOp'.deleted THEN 1 ELSE 0)
       /\ lastOp'.op = "clear" => Count(coll') = 0
       /\ lastOp'.op = "get_all" => Count(coll') = Count(coll)
       /\ Count(coll') = Cardinality({r.id : r \in coll'.rows})
       /\ Count(coll') > 0
            => Len(GetAll(coll', 0, Count(coll')).results) = Count(coll')]_vars

\* an add returned and count() is not the number of vectors in the index
C25_Witness ==
    /\ lastOp.op = "add"
    /\ ~lastOp.raised
    /\ Count(coll) # Cardinality(Labels(coll.items))


\* the rows of the table that the batch of this step brought: the embeddings of a
\* batch carry the creation times after the clock of the call
BatchRows == {r \in coll'.rows : r.created_at \in (clock + 1)..clock'}

\* C26: add_batch is all or nothing: when it returns, every record of the batch has
\* a row and a vector and count() grew by the length of the batch; when it raises,
\* no record of the batch is in the table and the index is as it was
C26_BatchAllOrNothing ==
    [][lastOp'.op = "add_batch"
          => /\ ~lastOp'.raised
                  => /\ Cardinality(BatchRows) = lastOp'.k
                     /\ \A r \in BatchRows : r.id \in Labels(coll'.items)
                     /\ Count(coll') = Count(coll) + lastOp'.k
             /\ lastOp'.raised
                  => /\ BatchRows = {}
                     /\ coll'.items = coll.items]_vars

\* C26, the part on a batch that returns and on a batch the table refuses
C26_BatchReturnedOrRefused ==
    [][lastOp'.op = "add_batch"
          => /\ ~lastOp'.raised
                  => /\ Cardinality(BatchRows) = lastOp'.k
                     /\ \A r \in BatchRows : r.id \in Labels(coll'.items)
                     /\ Count(coll') = Count(coll) + lastOp'.k
             /\ (lastOp'.raised /\ coll'.rows = coll.rows)
                  => coll'.items = coll.items]_vars


\* the consumer has counted task i: its store call ended and the consumer resumed
Handled(i) ==
    /\ Ended(i)
    /\ \A w \in Workers : ~(wpc[w] = "resume" /\ wcur[w] = i)

\* task i is in the table
StoredInTable(i) == \E r \in coll.rows : r.text = i

\* the failure of task i is in errors
CountedFailed(i) == \E j \in 1..Len(errors) : errors[j][1] = i

C28_NothingOnLoop == \A x \in contexts : x.on = "thread"

\* C28, the part on store: the consumer's store calls run on a thread
C28_StoreOffLoop == \A x \in contexts : x.call = "store" => x.on = "thread"


\* stop() has been called and has not returned
StopPending == callerPc \in {"stop_join", "stop_wait"}

\* the consumer that stop() awaits is running and every queued task is ahead of
\* any termination signal
ConsumerServes ==
    /\ workerTask # 0 /\ Alive(workerTask)
    /\ \A j \in 1..Len(queue) : queue[j] # 0

IndexPersisted(c) ==
    /\ Reopen(c).items = c.items
    /\ Reopen(c).max_elements = c.max_elements

\* C30: when add, add_batch or clear has returned, the index file holds the index
\* as it is in memory, and a collection opened again on the store gives the same
\* count(), get_all() and search() as the one that wrote it
C30_ReopenGivesSame ==
    (lastOp.op \in {"add", "add_batch", "clear"} /\ ~lastOp.raised)
        => /\ IndexPersisted(coll)
           /\ Observables(Reopen(coll)) = Observables(coll)

\* C30 for the calls that write something: add, clear and add_batch of a batch
\* that is not empty
C30_ReopenAfterWrite ==
    (/\ lastOp.op \in {"add", "add_batch", "clear"}
     /\ ~lastOp.raised
     /\ lastOp.op = "add_batch" => lastOp.k > 0)
        => /\ coll.file = SavedIndex(coll.items, coll.max_elements)
           /\ Observables(Reopen(coll)) = Observables(coll)

\* C31: a stored finding is read back as it was stored. get_all_findings returns one
\* Finding per metadata row, and every row's Finding has the text, the citation
\* fields, the relevance notes, the finding type and the confidence of the finding
\* that was stored, with the row's doc id; after a store that returned, the finding
\* with the returned doc id is among them; every result of search_findings is the
\* stored finding of a row
StoredAs(r) == [FindingOf(r.text) EXCEPT !.doc_id = Some(r.doc_id)]

C31_RoundTrip ==
    LET findings == GetAllFindings(coll)
    IN /\ Len(findings) = Cardinality(coll.rows)
       /\ \A r \in coll.rows : \E i \in 1..Len(findings) : findings[i] = StoredAs(r)
       /\ (lastOp.op = "store" /\ ~lastOp.raised)
            => \E i \in 1..Len(findings) :
                   /\ findings[i].doc_id = Some(lastOp.doc_id)
                   /\ findings[i] = [FindingOf(clock) EXCEPT !.doc_id = Some(lastOp.doc_id)]
       /\ (lastOp.op = "get_all_findings") => lastOp.results = findings
       /\ (lastOp.op = "search_findings" /\ ~lastOp.raised)
            => \A i \in 1..Len(lastOp.results) :
                   \E r \in coll.rows : lastOp.results[i].finding = StoredAs(r)

\* three findings were stored, one without author and one without publication
\* date, and all three were read back
C31_Witness ==
    /\ lastOp.op = "get_all_findings"
    /\ Len(lastOp.results) = 3
    /\ \E i, j \in 1..3 : /\ lastOp.results[i].citation.author = None
                           /\ lastOp.results[j].citation.publication_date = None
                           /\ lastOp.results[i].confidence = Some(0)

\* C32: the index never holds more vectors than its capacity, and no insert fails
\* for lack of capacity: whatever add or add_batch comes next, after
\* _resize_index_if_needed has grown the capacity to
\* max(capacity*2, needed + margin) where it was full, add_items finds room for
\* every vector of the call
RoomFor(c, n) ==
    LET first == NextRowId(c.rows)
        row_ids == [i \in 1..n |-> first + i - 1]
        cap == ResizeIndexIfNeeded(c.max_elements, first + n - 1)
    IN /\ ~AddItems(c.items, cap, row_ids, [i \in 1..n |-> 0]).raised
       /\ (first + n - 1 >= c.max_elements)
            => cap = Maximum(c.max_elements * 2, first + n - 1 + GrowthMargin)

C32_NeverFull ==
    /\ Cardinality(Labels(coll.items)) <= coll.max_elements
    /\ \A n \in 1..MaxBatch : RoomFor(coll, n)

\* the index was filled to its first capacity and has grown, after a delete
C32_Witness ==
    /\ coll.max_elements > InitCapacity
    /\ Cardinality(Labels(coll.items)) >= InitCapacity
    /\ Cardinality(coll.rows) < Cardinality(Labels(coll.items))

\* C33: every task whose enqueue() returned before stop() returned is counted as
\* stored or failed once stop() has returned, also a task enqueued after stop()
\* put its termination signal into the queue.
C33_NoTaskDropped == lastRet = "stop" => \A i \in 1..nEnq : Handled(i)

\* C34: at every moment stored_count + failed_count + pending_count + (1 if the
\* consumer is processing a task, else 0) is the number of tasks enqueued so far;
\* pending_count never counts the termination signal.
C34_CountsAddUp ==
    stored + failed + PendingCount(queue)
        + (IF \E w \in Workers : Processing(w) THEN 1 ELSE 0) = nEnq

\* the tasks of the queue, without the termination signals
RealTasks(q) == SelectSeq(q, LAMBDA item : item # 0)

C34_TasksAddUp ==
    stored + failed + Len(RealTasks(queue))
        + (IF \E w \in Workers : Processing(w) THEN 1 ELSE 0) = nEnq

\* C35: for every live row the vector the index holds under the row's id is the
\* vector supplied with that record's add, here the embedding of the record's own
\* text, and the distance search reports for a record is the distance of the query
\* to that vector.
C35_OwnVector ==
    /\ \A r \in coll.rows :
          r.id \in Labels(coll.items) => coll.items[r.id] = EmbedSingle(r.text)
    /\ \A q \in Vecs : \A found \in Search(coll, q, MaxK) :
          \A i \in 1..Len(found.results) :
              found.results[i].distance = Distance(q, EmbedSingle(found.results[i].text))

\* C36: when the process has stopped inside add or add_batch after the commit and
\* before the index was saved, the collection opened again from its two files has
\* a vector in the loaded index for every row, and its search does not fail.
C36_ReopenedIsWhole ==
    lastOp.op = "reopen"
        => /\ \A r \in coll.rows : r.id \in Labels(coll.items)
           /\ \A q \in Vecs, k \in 1..MaxK : \A found \in Search(coll, q, k) : ~found.raised

\* C37: with the consumer as the only writer, count() after stop() has returned is
\* count() at the creation of the queue (0 here) plus stored_count: every task
\* counted as stored has its row and its vector in the collection, every task
\* counted as failed has left no row.
C37_CountIsStored ==
    lastRet = "stop"
        => /\ Count(coll) = Count(NewCollection) + stored
           /\ \A i \in 1..nEnq :
                 /\ CountedFailed(i) => ~StoredInTable(i)
                 /\ (Handled(i) /\ ~CountedFailed(i))
                      => \E r \in coll.rows : r.text = i /\ r.id \in Labels(coll.items)

\* the part that holds: a task counted as stored has its row and its vector
C37_StoredIsThere ==
    lastRet = "stop"
        => \A i \in 1..nEnq :
              (Handled(i) /\ ~CountedFailed(i))
                  => \E r \in coll.rows : r.text = i /\ r.id \in Labels(coll.items)

\* C38: get_statistics() and has_source() called on the loop while the consumer's
\* thread stores a finding never fail and give a consistent snapshot: in every
\* statistics result unique_sources is the number of entries of source_urls, and
\* has_source ends its scan of the set without an exception.
C38_ConsistentSnapshot ==
    /\ lastOp.op = "statistics" => lastOp.k = Len(lastOp.results)
    /\ lastOp.op = "has_source" => ~lastOp.raised

\* C39: every result of validate_direct_quote is well-formed. It is valid exactly
\* when matched_text is a non-empty string and error is absent, invalid exactly
\* when error is set and matched_text is absent; match_ratio lies in [0, 1] and is
\* 1 for a match of the exact phase; an empty or whitespace-only quote is never
\* reported valid.
NonEmptyText(o) == o.some /\ Len(o.text) > 0

C39_ResultWellFormed ==
    LET v == tool.validation
    IN v.phase # "none"
        => /\ v.valid <=> (NonEmptyText(v.matched_text) /\ v.error = "None")
           /\ ~v.valid <=> (v.error # "None" /\ ~v.matched_text.some)
           /\ v.match_ratio.den > 0
           /\ 0 <= v.match_ratio.num /\ v.match_ratio.num <= v.match_ratio.den
           /\ (v.valid /\ v.phase = "exact") => v.match_ratio.num = v.match_ratio.den
           /\ (\A i \in 1..Len(tool.text) : tool.text[i] = " ") => ~v.valid

\* a whitespace-only quote was validated against a readable page and rejected
C39_Witness ==
    /\ tool.finding_type = "direct_quote"
    /\ Len(tool.text) > 0 /\ \A i \in 1..Len(tool.text) : tool.text[i] = " "
    /\ tool.page.ok /\ tool.validation.phase = "fuzzy"
    /\ ~tool.validation.valid /\ tool.validation.error # "None"

\* C40: run() always ends with the queue stopped. It makes at most MAX_AGENT_TURNS
\* model turns and starts no turn once shutdown was requested; whenever run() has
\* been left, stop() has completed before, and no finding queued during the run is
\* pending: every one is counted as stored or failed.
RunLeft == agent.pc = "left"

C40_RunEndsStopped ==
    /\ [](agent.turns <= MaxTurns)
    /\ [][agent'.turns # agent.turns => ~agent.shutdown]_vars
    /\ [](RunLeft => /\ lastRet = "stop"
                      /\ \A i \in 1..nEnq : Handled(i)
                      /\ stored + failed = nEnq)

\* the same for the three ways run() returns: completion marker, shutdown request,
\* turn limit
C40_ReturnEndsStopped ==
    /\ [](agent.turns <= MaxTurns)
    /\ [][agent'.turns # agent.turns => ~agent.shutdown]_vars
    /\ []((RunLeft /\ agent.left # "exception")
            => /\ lastRet = "stop"
               /\ \A i \in 1..nEnq : Handled(i)
               /\ stored + failed = nEnq)

====
